---- MODULE Spec2Model ----
(***************************************************************************)
(* A model of the multi-user OAuth 2.0 + PKCE credential broker of x-mcp:  *)
(* the persistent store (XDatabase), the Session Manager, the Token        *)
(* Manager, the OAuth Flow Controller (OAuthManager) and the Encryption    *)
(* Manager, as state machines over the four tables of the store.           *)
(*                                                                         *)
(* Conventions.                                                            *)
(*  - An optional value (undefined / null / a missing row) is a sequence   *)
(*    of length 0 or 1: None is <<>>, Some(x) is <<x>>.                    *)
(*  - A string that the code splits on ':' is the sequence of its fields.  *)
(*  - A random draw (uuid, salt, IV, token) is a choice from a small set.  *)
(*  - Date.now() is the variable now; one tick is 30 seconds for token     *)
(*    expiry, and the session and pairing TTLs are scaled to a few ticks.  *)
(*  - An async handler is one action per stretch between two awaits of an  *)
(*    external HTTP call; the store calls are synchronous (better-sqlite3).*)
(***************************************************************************)
EXTENDS Integers, Sequences, FiniteSets, TLC

VARIABLES
    now,               \* Date.now()
    users,             \* table users: id -> row
    sessions,          \* table sessions: id -> row
    user_tokens,       \* table user_tokens: user_id -> row
    pairing_sessions,  \* table pairing_sessions: pairing_code -> row
    defaultUserId,     \* SessionManager.defaultUserId
    config,            \* the XConfig of the process: hostedMode and baseUrl
    started,           \* how many hosted flows startHostedAuth has started
    issued,            \* what createSession produced: sessionId -> secret and expiry
    flows,             \* loopback callback servers: id -> closure and listening flag
    callbackServer,    \* OAuthManager.callbackServer: the server created last, if any
    calls,             \* async calls in flight (between two awaits)
    sent,              \* the last request sent to the token endpoint, and a bit
                       \* that every request sent flips
    refreshFailed,     \* users whose row a refused refresh deleted, until they re-authenticate
    uncleaned,         \* the tables sessions and pairing_sessions of the run of the same
                       \* operations in which neither cleanup ever executes
    ret                \* the operation that ran last, its arguments and its result

vars == <<now, users, sessions, user_tokens, pairing_sessions, defaultUserId, config,
          started, issued, flows, callbackServer, calls, sent, refreshFailed, uncleaned,
          ret>>

----------------------------------------------------------------------------
(* Bounds of the model *)

MaxTime == 2
MaxFlowTime == 1
MaxSessions == 1
NSalts == 2
MaxPairings == 1
MaxFlows == 1
MaxFlowCalls == 1
MaxTokenCalls == 2
MaxExpiresIn == 3

\* startLoopbackAuth calls of one OAuthManager before it is stopped
MaxStarts == 2

\* requests of the callback route that one loopback server handles at once
MaxCallbacks == 2

(* Program constants, scaled to ticks *)

\* 30 * 24 * 60 * 60 * 1000 ms, the default session lifetime
SessionTTL == 2

\* 10 * 60 * 1000 ms, the default pairing session lifetime
PairingTTL == 1

\* 60000 ms, the refresh buffer before expiry: two ticks of 30 seconds
RefreshBuffer == 2

\* maxRetries of makeRequest
MaxRetries == 3

\* baseDelay of makeRequest, 1000 ms, as the unit of its delays
BaseDelay == 1

----------------------------------------------------------------------------
(* Optional values *)

None == <<>>

Some(x) == <<x>>

\* JavaScript truthiness of an optional string: undefined and "" are falsy
Truthy(opt) == opt # None /\ opt[1] # ""

\* JavaScript truthiness of an optional number: undefined and 0 are falsy
TruthyNum(opt) == opt # None /\ opt[1] # 0

Times == 0..MaxTime

SessionIds == 1..MaxSessions

Salts == 1..NSalts

\* what generateSecureToken can return (never the empty string: 32 random bytes)
GenSecrets == {"k1", "k2"}

\* what a caller can present as sessionSecret
Secrets == GenSecrets \cup {""}

LOCAL_X_USER_ID == "local_user"

\* the IVs drawn in the flows (decrypt parses the IV and does not use it)
FlowIVs == {"iv1"}

PairingCodes == 1..MaxPairings

FlowIds == 1..MaxFlows

CallIds == 1..(MaxFlowCalls + MaxTokenCalls)

\* the external user ids the identity endpoint reports (never the local sentinel)
XUserIds == {"x1", "x2"}

Usernames == {"alice", "alice2"}

\* userData.data.name can be missing or empty
Names == {"", "Alice"}

\* authorization codes a callback can carry
AuthCodes == {"c1"}

\* access and refresh tokens the Authorization Server can issue
AccessTokens == {"at1", "at2"}

RefreshTokens == {"rt1", "rt2"}

\* granted-scope strings, as the sequence of their space-separated words
FullScope == <<"users.read", "tweet.read", "tweet.write", "bookmark.read",
               "bookmark.write", "offline.access">>

ReadScope == <<"users.read", "tweet.read">>

\* a grant that names the read-bookmarks scope in the plural only
PluralScope == <<"users.read", "bookmarks.read">>

ScopeStrings == {FullScope, ReadScope, PluralScope}

\* a successful token endpoint response body
TokenResponses ==
    [access_token : AccessTokens,
     refresh_token : {None} \cup {Some(r) : r \in RefreshTokens},
     expires_in : 1..MaxExpiresIn,
     scope : {None} \cup {Some(g) : g \in ScopeStrings}]

\* the process-wide encryption key
ProcessKey == "key"

----------------------------------------------------------------------------
(* EncryptionManager: password hashing *)

\* pbkdf2Sync(password, salt, 100000, 64, 'sha512') as hex: a collision-free digest
PBKDF2(password, salt) == [pw |-> password, salt |-> salt]

\* hashPassword(password, salt?): rnd is the randomBytes(16) drawn when no salt is given
hashPassword(password, saltOpt, rnd) ==
    LET saltBuffer == IF saltOpt # None THEN saltOpt[1] ELSE rnd
    IN  [hash |-> PBKDF2(password, saltBuffer), salt |-> saltBuffer]

verifyPassword(password, hash, salt, rnd) ==
    hashPassword(password, Some(salt), rnd).hash = hash

\* one-unit strings that are an unpaired UTF-16 surrogate, and U+FFFD
LoneSurrogates == {"<U+D800>", "<U+DC00>"}

ReplacementCharacter == "<U+FFFD>"

\* the bytes of a string under the 'utf8' input encoding of cipher.update: an
\* unpaired surrogate is written as the bytes of U+FFFD
utf8Write(string) ==
    [utf8 |-> IF string \in LoneSurrogates THEN ReplacementCharacter ELSE string]

\* the string of bytes under the 'utf8' output encoding of decipher.update
utf8Slice(bytes) == bytes.utf8

\* aes-256-cbc under a key, as hex: decipherable only under the same key
AES(key, data) == [key |-> key, data |-> data]

\* encrypt(data): iv is the randomBytes(16) drawn, prepended and not given to
\* createCipher; cipher.update throws on a value that is not a string. The result
\* is "iv:encrypted", None when it throws.
encrypt(data, iv) ==
    IF data = None THEN None ELSE Some(<<iv, AES(ProcessKey, utf8Write(data[1]))>>)

\* decrypt(encryptedData): split(':') into [ivHex, encrypted]; the iv is parsed and
\* not used; decipher.final throws under another key. None when it throws.
decrypt(encryptedData) ==
    IF Len(encryptedData) < 2 THEN None
    ELSE IF encryptedData[2].key # ProcessKey THEN None
    ELSE Some(utf8Slice(encryptedData[2].data))

----------------------------------------------------------------------------
(* XDatabase: sessions *)

\* getSession with the expiry comparison off by one (expires_at >= now)
getSession_OffByOne(sessionId) ==
    IF sessionId \in DOMAIN sessions /\ sessions[sessionId].expires_at >= now
    THEN Some(sessions[sessionId])
    ELSE None

\* SELECT * FROM sessions WHERE id = ? AND expires_at > ?
getSession(sessionId) ==
    IF sessionId \in DOMAIN sessions /\ sessions[sessionId].expires_at > now
    THEN Some(sessions[sessionId])
    ELSE None

\* the row createSession inserts: expiresAt || (now + 30 days)
NewSessionRow(userId, sessionId, sessionSecretHash, expiresAt) ==
    [id |-> sessionId,
     user_id |-> userId,
     created_at |-> now,
     expires_at |-> IF TruthyNum(expiresAt) THEN expiresAt[1] ELSE now + SessionTTL,
     session_secret_hash |-> sessionSecretHash]

\* cleanupExpiredSessions with its DELETE comparing created_at
SessionsAfterCleanup_ByCreation ==
    [s \in {t \in DOMAIN sessions : ~(sessions[t].created_at <= now)} |-> sessions[s]]

\* DELETE FROM sessions WHERE expires_at <= ?
SessionsAfterCleanup ==
    [s \in {t \in DOMAIN sessions : ~(sessions[t].expires_at <= now)} |-> sessions[s]]

----------------------------------------------------------------------------
(* XDatabase: users *)

\* SELECT * FROM users WHERE id = ?
getUserById(id) == IF id \in DOMAIN users THEN Some(users[id]) ELSE None

\* getUserByXUserId with its query selecting on x_username
getUserByXUserId_ByUsername(xUserId) ==
    LET ids == {i \in DOMAIN users : users[i].x_username = xUserId}
    IN  IF ids = {} THEN None ELSE Some(users[CHOOSE i \in ids : TRUE])

\* SELECT * FROM users WHERE x_user_id = ? (x_user_id is UNIQUE)
getUserByXUserId(xUserId) ==
    LET ids == {i \in DOMAIN users : users[i].x_user_id = xUserId}
    IN  IF ids = {} THEN None ELSE Some(users[CHOOSE i \in ids : TRUE])

\* the row createUser inserts: AUTOINCREMENT id, displayName || username
createUser(xUserId, username, displayName) ==
    [id |-> Cardinality(DOMAIN users) + 1,
     created_at |-> now,
     display_name |-> IF Truthy(displayName) THEN displayName[1] ELSE username,
     x_user_id |-> xUserId,
     x_username |-> username]

\* the row after updateUser(id, {x_username, display_name})
updateUser(row, username, displayName) ==
    [row EXCEPT !.x_username = username, !.display_name = displayName]

----------------------------------------------------------------------------
(* XDatabase: user_tokens *)

\* SELECT * FROM user_tokens WHERE user_id = ?
getUserTokens(userId) ==
    IF userId \in DOMAIN user_tokens THEN Some(user_tokens[userId]) ELSE None

\* saveUserTokens as a plain INSERT OR REPLACE, without the COALESCE on created_at
saveUserTokens_PlainReplace(table, userId, tokenData) ==
    (userId :> [user_id |-> userId,
                provider |-> "x",
                x_user_id |-> tokenData.x_user_id,
                granted_scopes |-> tokenData.granted_scopes,
                access_token |-> tokenData.access_token,
                refresh_token |-> tokenData.refresh_token,
                expires_at |-> tokenData.expires_at,
                created_at |-> now,
                updated_at |-> now]) @@ table

\* the table after saveUserTokens: INSERT OR REPLACE keeping the first created_at
saveUserTokens(table, userId, tokenData) ==
    (userId :> [user_id |-> userId,
                provider |-> "x",
                x_user_id |-> tokenData.x_user_id,
                granted_scopes |-> tokenData.granted_scopes,
                access_token |-> tokenData.access_token,
                refresh_token |-> tokenData.refresh_token,
                expires_at |-> tokenData.expires_at,
                created_at |-> IF userId \in DOMAIN table
                               THEN table[userId].created_at ELSE now,
                updated_at |-> now]) @@ table

\* deleteUserTokens with a DELETE that matches no row
deleteUserTokens_NoRow(table, userId) == table

\* deleteUserTokens with its DELETE lacking the WHERE clause
deleteUserTokens_AllRows(table, userId) == <<>>

\* the table after deleteUserTokens: DELETE FROM user_tokens WHERE user_id = ?
deleteUserTokens(table, userId) ==
    [u \in DOMAIN table \ {userId} |-> table[u]]

----------------------------------------------------------------------------
(* XDatabase: pairing_sessions *)

\* the row createPairingSession inserts: expiresAt || (now + 10 minutes)
createPairingSession(pairingCode, codeVerifier, state, expiresAt) ==
    [pairing_code |-> pairingCode,
     created_at |-> now,
     expires_at |-> IF TruthyNum(expiresAt) THEN expiresAt[1] ELSE now + PairingTTL,
     code_verifier |-> codeVerifier,
     state |-> state,
     user_id |-> None,
     completed |-> FALSE]

\* getPairingSession without the expiry condition of its query
getPairingSession_NoExpiry(pairingCode) ==
    IF pairingCode \in DOMAIN pairing_sessions
    THEN Some(pairing_sessions[pairingCode])
    ELSE None

\* SELECT * FROM pairing_sessions WHERE pairing_code = ? AND expires_at > ?
getPairingSession(pairingCode) ==
    IF pairingCode \in DOMAIN pairing_sessions
       /\ pairing_sessions[pairingCode].expires_at > now
    THEN Some(pairing_sessions[pairingCode])
    ELSE None

\* getPairingSessionByState without the expiry condition of its query
getPairingSessionByState_NoExpiry(state) ==
    LET codes == {c \in DOMAIN pairing_sessions : pairing_sessions[c].state = state}
    IN  IF codes = {} THEN None ELSE Some(pairing_sessions[CHOOSE c \in codes : TRUE])

\* getPairingSessionByState with its query selecting on expires_at only
getPairingSessionByState_AnyState(state) ==
    LET codes == {c \in DOMAIN pairing_sessions : pairing_sessions[c].expires_at > now}
    IN  IF codes = {} THEN None ELSE Some(pairing_sessions[CHOOSE c \in codes : TRUE])

\* SELECT * FROM pairing_sessions WHERE state = ? AND expires_at > ?
getPairingSessionByState(state) ==
    LET codes == {c \in DOMAIN pairing_sessions :
                    /\ pairing_sessions[c].state = state
                    /\ pairing_sessions[c].expires_at > now}
    IN  IF codes = {} THEN None ELSE Some(pairing_sessions[CHOOSE c \in codes : TRUE])

\* completePairingSession without the expiry condition of its UPDATE
completePairingSession_NoExpiry(table, pairingCode, userId) ==
    [c \in DOMAIN table |->
        IF c = pairingCode
        THEN [table[c] EXCEPT !.user_id = Some(userId), !.completed = TRUE]
        ELSE table[c]]

\* the table after completePairingSession:
\* UPDATE ... SET user_id = ?, completed = 1 WHERE pairing_code = ? AND expires_at > ?
completePairingSession(table, pairingCode, userId) ==
    [c \in DOMAIN table |->
        IF c = pairingCode /\ table[c].expires_at > now
        THEN [table[c] EXCEPT !.user_id = Some(userId), !.completed = TRUE]
        ELSE table[c]]

\* cleanupExpiredPairingSessions with a DELETE that also takes the completed rows
cleanupExpiredPairingSessions_Completed(table) ==
    [c \in {d \in DOMAIN table : ~(table[d].expires_at <= now \/ table[d].completed)}
        |-> table[c]]

\* DELETE FROM pairing_sessions WHERE expires_at <= ?
cleanupExpiredPairingSessions(table) ==
    [c \in {d \in DOMAIN table : ~(table[d].expires_at <= now)} |-> table[c]]

----------------------------------------------------------------------------
(* OAuthManager: the steps shared by both flows *)

\* randomBytes(32) of generateCodeVerifier and randomBytes(16) of the state, of the
\* n-th flow of a kind: fresh values, different for every flow
VerifierOf(kind, n) == <<"verifier", kind, n>>

StateOf(kind, n) == <<"state", kind, n>>

\* generateCodeChallenge: sha256 of the verifier, base64url
generateCodeChallenge(codeVerifier) == [sha256 |-> codeVerifier]

\* the request exchangeCodeForToken posts to the token endpoint
ExchangeRequest(code, codeVerifier) ==
    [grant_type |-> "authorization_code", code |-> code, secret |-> codeVerifier]

\* the request refreshTokens posts to the token endpoint
RefreshRequest(refreshToken) ==
    [grant_type |-> "refresh_token", code |-> "", secret |-> refreshToken]

\* the TokenData exchangeCodeForToken builds from a successful response
exchangeCodeForToken(tokenResponse) ==
    [access_token |-> tokenResponse.access_token,
     refresh_token |-> tokenResponse.refresh_token,
     expires_at |-> now + tokenResponse.expires_in,
     scope |-> tokenResponse.scope]

\* what fetchUserInfo returns for the data of a successful response
fetchUserInfo(data) ==
    [id |-> data.id,
     username |-> data.username,
     name |-> IF data.name # "" THEN data.name ELSE data.username]

\* storeUserAndTokens(xUser, tokenData): get or create the user, then encrypt and
\* save the tokens. Yields the tables afterwards and the user, None when it threw
\* (encrypt on a missing token, or a NOT NULL column bound to a missing value).
storeUserAndTokens(xUser, tokenData, iv1, iv2) ==
    LET existing == getUserByXUserId(xUser.id)
        user == IF existing = None
                THEN createUser(xUser.id, xUser.username, Some(xUser.name))
                ELSE updateUser(existing[1], xUser.username, xUser.name)
        users1 == (user.id :> user) @@ users
        access == encrypt(Some(tokenData.access_token), iv1)
        refresh == encrypt(tokenData.refresh_token, iv2)
    IN  IF access = None \/ refresh = None \/ tokenData.scope = None
        THEN [users |-> users1, user_tokens |-> user_tokens, user |-> None]
        ELSE [users |-> users1,
              user_tokens |->
                  saveUserTokens(user_tokens, user.id,
                                 [x_user_id |-> xUser.id,
                                  granted_scopes |-> tokenData.scope[1],
                                  access_token |-> access[1],
                                  refresh_token |-> refresh[1],
                                  expires_at |-> tokenData.expires_at]),
              user |-> Some(user)]

----------------------------------------------------------------------------
(* Async calls in flight and the requests sent to the token endpoint *)

\* the id a new call gets: the least one free
FreeCall == CHOOSE c \in CallIds \ DOMAIN calls : \A d \in CallIds \ DOMAIN calls : c <= d

\* one more call may be in flight
CanCall(limit) == Cardinality(DOMAIN calls) < limit

\* a call that stays in flight after its handler has thrown or returned
CallsWithout_StaysInFlight(c) == calls

\* the calls in flight once call c has thrown or returned
CallsWithout(c) == [d \in DOMAIN calls \ {c} |-> calls[d]]

\* the token endpoint receives one more request
Send(request) == [last |-> Some(request), flip |-> 1 - sent.flip]

----------------------------------------------------------------------------
(* SessionManager *)

\* hashSessionSecret: keeps hashPassword's hash and drops its salt; the stored
\* string is the hex digest alone, one field when split on ':'
hashSessionSecret(secret, rnd) == <<hashPassword(secret, None, rnd).hash>>

\* verifySessionSecret that accepts any secret for a hash stored without a salt
verifySessionSecret_LegacyAccepts(secret, hash, rnd) ==
    LET hashPart == hash[1]
        saltPart == IF Len(hash) >= 2 THEN Some(hash[2]) ELSE None
    IN  IF saltPart = None
        THEN TRUE
        ELSE verifyPassword(secret, hashPart, saltPart[1], rnd)

\* verifySessionSecret(secret, hash): hash.split(':') gives [hashPart, saltPart]
verifySessionSecret(secret, hash, rnd) ==
    LET hashPart == hash[1]
        saltPart == IF Len(hash) >= 2 THEN Some(hash[2]) ELSE None
    IN  IF saltPart = None
        THEN <<hashPassword(secret, None, rnd).hash>> = hash
        ELSE verifyPassword(secret, hashPart, saltPart[1], rnd)

\* validateSession that refuses a call without a secret
validateSession_SecretRequired(sessionId, sessionSecret, rnd) ==
    LET session == getSession(sessionId)
    IN  IF session = None THEN None
        ELSE IF ~Truthy(sessionSecret) THEN None
        ELSE IF ~verifySessionSecret(sessionSecret[1], session[1].session_secret_hash, rnd)
             THEN None
        ELSE session

\* validateSession(sessionId, sessionSecret?)
validateSession(sessionId, sessionSecret, rnd) ==
    LET session == getSession(sessionId)
    IN  IF session = None THEN None
        ELSE IF ~Truthy(sessionSecret) THEN session
        ELSE IF ~verifySessionSecret(sessionSecret[1], session[1].session_secret_hash, rnd)
             THEN None
        ELSE session

\* getUserFromSession(sessionId?, sessionSecret?)
getUserFromSession(sessionId, sessionSecret, rnd) ==
    IF ~TruthyNum(sessionId)
    THEN IF TruthyNum(defaultUserId) THEN getUserById(defaultUserId[1]) ELSE None
    ELSE LET session == validateSession(sessionId[1], sessionSecret, rnd)
         IN  IF session = None THEN None ELSE getUserById(session[1].user_id)

\* requireUser that hands on what getUserFromSession returned, null included
requireUser_ReturnsNull(sessionId, sessionSecret, rnd) ==
    [outcome |-> "returned", code |-> None,
     user |-> getUserFromSession(sessionId, sessionSecret, rnd)]

\* requireUser(sessionId?, sessionSecret?): the user, or the AuthError thrown
requireUser(sessionId, sessionSecret, rnd) ==
    LET user == getUserFromSession(sessionId, sessionSecret, rnd)
    IN  IF user = None
        THEN [outcome |-> "threw", code |-> Some("auth_invalid_session"), user |-> None]
        ELSE [outcome |-> "returned", code |-> None, user |-> user]

----------------------------------------------------------------------------
(* The state after construction: new XDatabase(), new SessionManager(db) *)

\* initializeDefaultUser that creates the local user without looking for it first
initializeDefaultUser_AlwaysCreates(table, time) ==
    LET id == Cardinality(DOMAIN table) + 1
    IN  [users |-> (id :> [id |-> id, created_at |-> time,
                           display_name |-> "Local User",
                           x_user_id |-> LOCAL_X_USER_ID,
                           x_username |-> "local_user"]) @@ table,
         defaultUserId |-> Some(id)]

\* initializeDefaultUser over a users table at a time: getUserByXUserId of the
\* sentinel, createUser('local_user', 'local_user', 'Local User') when there is none;
\* the table afterwards and this.defaultUserId
initializeDefaultUser(table, time) ==
    LET ids == {i \in DOMAIN table : table[i].x_user_id = LOCAL_X_USER_ID}
        id == Cardinality(DOMAIN table) + 1
    IN  IF ids = {}
        THEN [users |-> (id :> [id |-> id, created_at |-> time,
                                display_name |-> "Local User",
                                x_user_id |-> LOCAL_X_USER_ID,
                                x_username |-> "local_user"]) @@ table,
              defaultUserId |-> Some(id)]
        ELSE [users |-> table, defaultUserId |-> Some(CHOOSE i \in ids : TRUE)]

\* the XConfig of a process started with X_HOSTED_MODE and X_BASE_URL unset
DefaultConfig == [hostedMode |-> FALSE, baseUrl |-> None]

\* new XDatabase() on an empty store, then new SessionManager(db)
Init ==
    /\ now = 0
    /\ users = initializeDefaultUser(<<>>, 0).users
    /\ sessions = <<>>
    /\ user_tokens = <<>>
    /\ pairing_sessions = <<>>
    /\ defaultUserId = initializeDefaultUser(<<>>, 0).defaultUserId
    /\ config = DefaultConfig
    /\ started = 0
    /\ issued = <<>>
    /\ flows = <<>>
    /\ callbackServer = None
    /\ calls = <<>>
    /\ sent = [last |-> None, flip |-> 0]
    /\ refreshFailed = {}
    /\ uncleaned = [sessions |-> <<>>, pairing_sessions |-> <<>>]
    /\ ret = [op |-> "init"]

\* new SessionManager(db) over the store as it is: initializeDefaultUser again
NewSessionManager ==
    /\ users' = initializeDefaultUser(users, now).users
    /\ defaultUserId' = initializeDefaultUser(users, now).defaultUserId
    /\ ret' = [op |-> "initializeDefaultUser", outcome |-> "returned",
               user_id |-> defaultUserId'[1]]
    /\ UNCHANGED <<now, sessions, user_tokens, pairing_sessions, config, uncleaned, started,
                   issued, flows, callbackServer, calls, sent, refreshFailed>>

\* the clock advances, up to a limit
Tick(limit) ==
    /\ now < limit
    /\ now' = now + 1
    /\ ret' = [op |-> "tick"]
    /\ UNCHANGED <<users, sessions, user_tokens, pairing_sessions, defaultUserId, config, uncleaned,
                   started, issued, flows, callbackServer, calls, sent, refreshFailed>>

\* SessionManager.createSession(userId, expiresAt?)
CreateSession(userId, expiresAt) ==
    /\ Cardinality(DOMAIN issued) < MaxSessions
    /\ \E sessionSecret \in GenSecrets, rnd \in Salts :
          LET sessionId == Cardinality(DOMAIN issued) + 1 \* uuidv4(): an id never used
              row == NewSessionRow(userId, sessionId,
                                   hashSessionSecret(sessionSecret, rnd), expiresAt)
          IN  /\ sessions' = (sessionId :> row) @@ sessions
              /\ uncleaned' = [uncleaned EXCEPT !.sessions = (sessionId :> row) @@ @]
              /\ issued' = (sessionId :> [sessionSecret |-> sessionSecret,
                                           user_id |-> userId,
                                           expires_at |-> row.expires_at]) @@ issued
              /\ ret' = [op |-> "createSession", sessionId |-> sessionId,
                         sessionSecret |-> sessionSecret]
    /\ UNCHANGED <<now, users, user_tokens, pairing_sessions, defaultUserId, config,
                   started, flows, callbackServer, calls, sent, refreshFailed>>

\* XDatabase.getSession(sessionId)
GetSession(sessionId) ==
    /\ ret' = [op |-> "getSession", sessionId |-> sessionId,
               result |-> getSession(sessionId)]
    /\ UNCHANGED <<now, users, sessions, user_tokens, pairing_sessions, defaultUserId, config, uncleaned,
                   started, issued, flows, callbackServer, calls, sent, refreshFailed>>

\* SessionManager.validateSession(sessionId, sessionSecret?)
ValidateSession(sessionId, sessionSecret) ==
    /\ \E rnd \in Salts :
          ret' = [op |-> "validateSession", sessionId |-> sessionId,
                  sessionSecret |-> sessionSecret,
                  result |-> validateSession(sessionId, sessionSecret, rnd)]
    /\ UNCHANGED <<now, users, sessions, user_tokens, pairing_sessions, defaultUserId, config, uncleaned,
                   started, issued, flows, callbackServer, calls, sent, refreshFailed>>

\* SessionManager.getUserFromSession(sessionId, sessionSecret?) with a session id
GetUserFromSession(sessionId, sessionSecret) ==
    /\ \E rnd \in Salts :
          ret' = [op |-> "getUserFromSession", sessionId |-> sessionId,
                  sessionSecret |-> sessionSecret,
                  result |-> getUserFromSession(Some(sessionId), sessionSecret, rnd)]
    /\ UNCHANGED <<now, users, sessions, user_tokens, pairing_sessions, defaultUserId, config, uncleaned,
                   started, issued, flows, callbackServer, calls, sent, refreshFailed>>

\* SessionManager.requireUser(sessionId?, sessionSecret?); session records what
\* validateSession gave inside the call when a session id was presented
RequireUser(sessionId, sessionSecret) ==
    /\ \E rnd \in Salts :
          ret' = [op |-> "requireUser", sessionId |-> sessionId,
                  sessionSecret |-> sessionSecret,
                  session |-> IF TruthyNum(sessionId)
                              THEN validateSession(sessionId[1], sessionSecret, rnd)
                              ELSE None,
                  result |-> requireUser(sessionId, sessionSecret, rnd)]
    /\ UNCHANGED <<now, users, sessions, user_tokens, pairing_sessions, defaultUserId, config, uncleaned,
                   started, issued, flows, callbackServer, calls, sent, refreshFailed>>

\* SessionManager.deleteSession(sessionId)
DeleteSession(sessionId) ==
    /\ sessions' = [s \in DOMAIN sessions \ {sessionId} |-> sessions[s]]
    /\ uncleaned' = [uncleaned EXCEPT
                        !.sessions = [s \in DOMAIN @ \ {sessionId} |-> @[s]]]
    /\ ret' = [op |-> "deleteSession", sessionId |-> sessionId]
    /\ UNCHANGED <<now, users, user_tokens, pairing_sessions, defaultUserId, config,
                   started, issued, flows, callbackServer, calls, sent, refreshFailed>>

\* SessionManager.cleanupExpiredSessions()
CleanupExpiredSessions ==
    /\ sessions' = SessionsAfterCleanup
    /\ ret' = [op |-> "cleanupExpiredSessions"]
    /\ UNCHANGED <<now, users, user_tokens, pairing_sessions, defaultUserId, config, uncleaned,
                   started, issued, flows, callbackServer, calls, sent, refreshFailed>>

----------------------------------------------------------------------------
(* OAuthManager: the hosted-pairing flow *)

\* startHostedAuth(): the pairing code, verifier and state are fresh random values
StartHostedAuth ==
    /\ started < MaxPairings
    /\ LET n == started + 1
           row == createPairingSession(n, VerifierOf("hosted", n),
                                       StateOf("hosted", n), None)
       IN  /\ pairing_sessions' = (n :> row) @@ pairing_sessions
           /\ uncleaned' = [uncleaned EXCEPT !.pairing_sessions = (n :> row) @@ @]
           /\ started' = n
           /\ ret' = [op |-> "startHostedAuth", outcome |-> "returned",
                      pairing_code |-> n]
    /\ UNCHANGED <<now, users, sessions, user_tokens, defaultUserId, config, issued, flows,
                   callbackServer, calls, sent, refreshFailed>>

\* handleHostedCallback(code, state) up to its first await: the lookup by state and
\* the code exchange request
HandleHostedCallback(code, state) ==
    LET pairingSession == getPairingSessionByState(state)
    IN  /\ IF pairingSession = None
           THEN /\ ret' = [op |-> "handleHostedCallback", phase |-> "callback",
                           state |-> state, outcome |-> "threw",
                           error |-> "Invalid or expired pairing session"]
                /\ UNCHANGED <<calls, sent>>
           ELSE /\ CanCall(MaxFlowCalls)
                /\ calls' = (FreeCall :> [kind |-> "hosted", pc |-> "exchange",
                                          state |-> state,
                                          pairing_code |-> pairingSession[1].pairing_code,
                                          tokenData |-> None]) @@ calls
                /\ sent' = Send(ExchangeRequest(code, pairingSession[1].code_verifier))
                /\ ret' = [op |-> "handleHostedCallback", phase |-> "callback",
                           state |-> state, outcome |-> "awaiting"]
        /\ UNCHANGED <<now, users, sessions, user_tokens, pairing_sessions,
                       defaultUserId, config, uncleaned, started, issued, flows, callbackServer,
                       refreshFailed>>

\* the token endpoint answers the code exchange of a hosted callback: resp is None
\* for a response that is not ok or a failed fetch; then the identity request is sent
HostedExchangeResponse(c, resp) ==
    /\ c \in DOMAIN calls
    /\ calls[c].kind = "hosted"
    /\ calls[c].pc = "exchange"
    /\ IF resp = None
       THEN /\ calls' = CallsWithout(c)
            /\ ret' = [op |-> "handleHostedCallback", phase |-> "exchange",
                       state |-> calls[c].state, outcome |-> "threw",
                       error |-> "Token exchange failed"]
       ELSE /\ calls' = [calls EXCEPT ![c].pc = "userinfo",
                                      ![c].tokenData = Some(exchangeCodeForToken(resp[1]))]
            /\ ret' = [op |-> "handleHostedCallback", phase |-> "exchange",
                       state |-> calls[c].state, outcome |-> "awaiting"]
    /\ UNCHANGED <<now, users, sessions, user_tokens, pairing_sessions, defaultUserId, config, uncleaned,
                   started, issued, flows, callbackServer, sent, refreshFailed>>

\* the identity endpoint answers a hosted callback: resp is None for a response that
\* is not ok, has no data, or a failed fetch; then storeUserAndTokens,
\* completePairingSession and the return
HostedIdentityResponse(c, resp) ==
    /\ c \in DOMAIN calls
    /\ calls[c].kind = "hosted"
    /\ calls[c].pc = "userinfo"
    /\ calls' = CallsWithout(c)
    /\ IF resp = None
       THEN /\ ret' = [op |-> "handleHostedCallback", phase |-> "userinfo",
                       state |-> calls[c].state, outcome |-> "threw",
                       error |-> "Failed to fetch user info"]
            /\ UNCHANGED <<users, user_tokens, pairing_sessions, refreshFailed, uncleaned>>
       ELSE \E iv1 \in FlowIVs, iv2 \in FlowIVs :
              LET stored == storeUserAndTokens(fetchUserInfo(resp[1]),
                                               calls[c].tokenData[1], iv1, iv2)
                  code == calls[c].pairing_code
              IN  /\ users' = stored.users
                  /\ user_tokens' = stored.user_tokens
                  /\ IF stored.user = None
                     THEN /\ ret' = [op |-> "handleHostedCallback", phase |-> "userinfo",
                                     state |-> calls[c].state, outcome |-> "threw",
                                     error |-> "Encryption failed"]
                          /\ UNCHANGED <<pairing_sessions, refreshFailed, uncleaned>>
                     ELSE /\ pairing_sessions' =
                                completePairingSession(pairing_sessions, code,
                                                       stored.user[1].id)
                          /\ uncleaned' =
                                [uncleaned EXCEPT !.pairing_sessions =
                                    completePairingSession(@, code, stored.user[1].id)]
                          /\ refreshFailed' = refreshFailed \ {stored.user[1].id}
                          /\ ret' = [op |-> "handleHostedCallback", phase |-> "userinfo",
                                     state |-> calls[c].state, outcome |-> "returned",
                                     user_id |-> stored.user[1].id,
                                     pairing_code |-> code]
    /\ UNCHANGED <<now, sessions, defaultUserId, config, started, issued, flows,
                   callbackServer, sent>>

\* checkPairingStatus(pairingCode): the AuthStatusResponse
checkPairingStatus(pairingCode) ==
    LET session == getPairingSession(pairingCode)
        user == IF session = None \/ session[1].user_id = None THEN None
                ELSE getUserById(session[1].user_id[1])
    IN  IF session = None THEN [verified |-> FALSE, user |-> None]
        ELSE IF ~session[1].completed \/ ~TruthyNum(session[1].user_id)
        THEN [verified |-> FALSE, user |-> None]
        ELSE IF user = None THEN [verified |-> FALSE, user |-> None]
        ELSE [verified |-> TRUE,
              user |-> Some([id |-> user[1].id,
                             display_name |-> user[1].display_name,
                             x_username |-> user[1].x_username])]

CheckPairingStatus(pairingCode) ==
    /\ ret' = [op |-> "checkPairingStatus", outcome |-> "returned",
               pairing_code |-> pairingCode, result |-> checkPairingStatus(pairingCode)]
    /\ UNCHANGED <<now, users, sessions, user_tokens, pairing_sessions, defaultUserId, config, uncleaned,
                   started, issued, flows, callbackServer, calls, sent, refreshFailed>>

----------------------------------------------------------------------------
(* OAuthManager: the loopback flow *)

\* a port that several servers can listen on at once
PortBound_Shared == FALSE

\* a callback server of ours is bound to the redirect URI's port
PortBound == \E f \in DOMAIN flows : flows[f].listening

\* startLoopbackAuth(): createServer replaces this.callbackServer, then listen(port);
\* listen fails (EADDRINUSE) while an earlier server is bound, and the call rejects
StartLoopbackAuthUpTo(limit) ==
    /\ Cardinality(DOMAIN flows) < limit
    /\ LET n == Cardinality(DOMAIN flows) + 1
           codeVerifier == VerifierOf("loopback", n)
           state == StateOf("loopback", n)
       IN  /\ flows' = (n :> [codeVerifier |-> codeVerifier,
                              expectedState |-> state,
                              challenge |-> generateCodeChallenge(codeVerifier),
                              listening |-> ~PortBound]) @@ flows
           /\ callbackServer' = Some(n)
           /\ ret' = [op |-> "startLoopbackAuth", flow |-> n,
                      outcome |-> IF PortBound THEN "threw" ELSE "returned"]
    /\ UNCHANGED <<now, users, sessions, user_tokens, pairing_sessions, defaultUserId, config, uncleaned,
                   started, issued, calls, sent, refreshFailed>>

StartLoopbackAuth == StartLoopbackAuthUpTo(MaxFlows)

\* stop(): closes the server this.callbackServer refers to, if any, and clears the field
Stop ==
    /\ flows' = IF callbackServer = None THEN flows
                ELSE [flows EXCEPT ![callbackServer[1]].listening = FALSE]
    /\ callbackServer' = None
    /\ ret' = [op |-> "stop"]
    /\ UNCHANGED <<now, users, sessions, user_tokens, pairing_sessions, defaultUserId, config,
                   uncleaned, started, issued, calls, sent, refreshFailed>>

\* handleLoopbackCallback with the state comparison made only when a state is present
LoopbackCallbackError_StateOptional(request, expectedState) ==
    IF Truthy(request.error) THEN Some("Authorization error")
    ELSE IF ~Truthy(request.code) THEN Some("No authorization code received")
    ELSE IF request.state # None /\ request.state # Some(expectedState)
         THEN Some("Invalid state parameter")
    ELSE None

\* the checks of handleLoopbackCallback on the query parameters (searchParams.get
\* gives null for an absent one): the error it throws, None when they pass
LoopbackCallbackError(request, expectedState) ==
    IF Truthy(request.error) THEN Some("Authorization error")
    ELSE IF ~Truthy(request.code) THEN Some("No authorization code received")
    ELSE IF request.state # Some(expectedState) THEN Some("Invalid state parameter")
    ELSE None

\* handleLoopbackCallback on server f, up to its first await: the checks and the
\* code exchange request, with at most limit calls in flight
HandleLoopbackCallbackUpTo(f, request, limit) ==
    /\ f \in DOMAIN flows
    /\ flows[f].listening
    /\ LET error == LoopbackCallbackError(request, flows[f].expectedState)
       IN  IF error # None
           THEN /\ ret' = [op |-> "handleLoopbackCallback", phase |-> "callback",
                           flow |-> f, state |-> request.state, outcome |-> "threw",
                           error |-> error[1]]
                /\ UNCHANGED <<calls, sent>>
           ELSE /\ CanCall(limit)
                /\ calls' = (FreeCall :> [kind |-> "loopback", pc |-> "exchange",
                                          flow |-> f, tokenData |-> None]) @@ calls
                /\ sent' = Send(ExchangeRequest(request.code[1],
                                                        flows[f].codeVerifier))
                /\ ret' = [op |-> "handleLoopbackCallback", phase |-> "callback",
                           flow |-> f, state |-> request.state, outcome |-> "awaiting"]
    /\ UNCHANGED <<now, users, sessions, user_tokens, pairing_sessions, defaultUserId, config, uncleaned,
                   started, issued, flows, callbackServer, refreshFailed>>

HandleLoopbackCallback(f, request) == HandleLoopbackCallbackUpTo(f, request, MaxFlowCalls)

\* the token endpoint answers the code exchange of a loopback callback
LoopbackExchangeResponse(c, resp) ==
    /\ c \in DOMAIN calls
    /\ calls[c].kind = "loopback"
    /\ calls[c].pc = "exchange"
    /\ IF resp = None
       THEN /\ calls' = CallsWithout(c)
            /\ ret' = [op |-> "handleLoopbackCallback", phase |-> "exchange",
                       flow |-> calls[c].flow, outcome |-> "threw",
                       error |-> "Token exchange failed"]
       ELSE /\ calls' = [calls EXCEPT ![c].pc = "userinfo",
                                      ![c].tokenData = Some(exchangeCodeForToken(resp[1]))]
            /\ ret' = [op |-> "handleLoopbackCallback", phase |-> "exchange",
                       flow |-> calls[c].flow, outcome |-> "awaiting"]
    /\ UNCHANGED <<now, users, sessions, user_tokens, pairing_sessions, defaultUserId, config, uncleaned,
                   started, issued, flows, callbackServer, sent, refreshFailed>>

\* the identity endpoint answers a loopback callback; then storeUserAndTokens, the
\* success page, and this.callbackServer is closed and cleared
LoopbackIdentityResponse(c, resp) ==
    /\ c \in DOMAIN calls
    /\ calls[c].kind = "loopback"
    /\ calls[c].pc = "userinfo"
    /\ calls' = CallsWithout(c)
    /\ IF resp = None
       THEN /\ ret' = [op |-> "handleLoopbackCallback", phase |-> "userinfo",
                       flow |-> calls[c].flow, outcome |-> "threw",
                       error |-> "Failed to fetch user info"]
            /\ UNCHANGED <<users, user_tokens, flows, callbackServer, refreshFailed>>
       ELSE \E iv1 \in FlowIVs, iv2 \in FlowIVs :
              LET stored == storeUserAndTokens(fetchUserInfo(resp[1]),
                                               calls[c].tokenData[1], iv1, iv2)
              IN  /\ users' = stored.users
                  /\ user_tokens' = stored.user_tokens
                  /\ IF stored.user = None
                     THEN /\ ret' = [op |-> "handleLoopbackCallback",
                                     phase |-> "userinfo", flow |-> calls[c].flow,
                                     outcome |-> "threw", error |-> "Encryption failed"]
                          /\ UNCHANGED <<flows, callbackServer, refreshFailed>>
                     ELSE /\ flows' = IF callbackServer = None THEN flows
                                      ELSE [flows EXCEPT
                                              ![callbackServer[1]].listening = FALSE]
                          /\ callbackServer' = None
                          /\ refreshFailed' = refreshFailed \ {stored.user[1].id}
                          /\ ret' = [op |-> "handleLoopbackCallback",
                                     phase |-> "userinfo", flow |-> calls[c].flow,
                                     outcome |-> "returned",
                                     user_id |-> stored.user[1].id]
    /\ UNCHANGED <<now, sessions, pairing_sessions, defaultUserId, config, uncleaned, started, issued, sent>>

----------------------------------------------------------------------------
(* TokenManager *)

ToolNames == {"bookmarks.list", "bookmarks.add", "bookmarks.remove", "tweet.create",
              "users.read"}

\* getToolScopes(toolName)
getToolScopes(toolName) ==
    CASE toolName = "bookmarks.list" -> <<"bookmark.read", "bookmarks.read">>
      [] toolName \in {"bookmarks.add", "bookmarks.remove"} -> <<"bookmark.write">>
      [] toolName = "tweet.create" -> <<"tweet.write">>
      [] OTHER -> <<"users.read">>

\* grantedScopes.split(' '): the words of the string ("" splits into one empty word)
SplitScopes(grantedScopes) == IF grantedScopes = <<>> THEN <<"">> ELSE grantedScopes

Includes(seq, x) == \E i \in 1..Len(seq) : seq[i] = x

\* checkScopes(grantedScopes, requiredScopes): the required scopes that are missing
checkScopes(grantedScopes, requiredScopes) ==
    LET granted == SplitScopes(grantedScopes)
        Missing(required) ==
            IF required = "bookmark.read"
            THEN ~Includes(granted, "bookmark.read") /\ ~Includes(granted, "bookmarks.read")
            ELSE ~Includes(granted, required)
    IN  SelectSeq(requiredScopes, Missing)

\* getLoginUrl that has a URL in hosted mode only
getLoginUrl_HostedOnly ==
    IF config.hostedMode /\ Truthy(config.baseUrl)
    THEN Some(<<config.baseUrl[1], "/auth/start">>)
    ELSE None

\* getLoginUrl(): the hosted start URL, or the hint to run the auth helper
getLoginUrl ==
    IF config.hostedMode /\ Truthy(config.baseUrl)
    THEN Some(<<config.baseUrl[1], "/auth/start">>)
    ELSE Some(<<"Please run: npm run auth">>)

\* getReAuthUrl(missingScopes)
getReAuthUrl(missingScopes) ==
    IF config.hostedMode /\ Truthy(config.baseUrl)
    THEN Some(<<config.baseUrl[1], "/auth/start?additional_scopes=", missingScopes>>)
    ELSE Some(<<"Please re-authenticate with additional scopes", missingScopes>>)

\* the refresh test of getValidAccessToken with the 60 second buffer left out
NeedsRefresh_NoBuffer(expires_at) == now >= expires_at

\* Date.now() >= (decryptedTokens.expires_at - 60000)
NeedsRefresh(expires_at) == now >= expires_at - RefreshBuffer

\* getValidAccessToken(user, requiredScopes?) up to its first await: what it does
\* (throw, return, or refresh) and with which tokens
TokenCheck(userId, requiredScopes) ==
    LET tokens == getUserTokens(userId)
        access == IF tokens = None THEN None ELSE decrypt(tokens[1].access_token)
        refresh == IF tokens = None THEN None ELSE decrypt(tokens[1].refresh_token)
        missingScopes == IF tokens = None \/ requiredScopes = None THEN <<>>
                         ELSE checkScopes(tokens[1].granted_scopes, requiredScopes[1])
    IN  IF tokens = None
        THEN [do |-> "throw", code |-> "auth_reauth_required",
              message |-> "No tokens found", missing_scopes |-> <<>>,
              login_url |-> getLoginUrl]
        ELSE IF access = None \/ refresh = None
        THEN [do |-> "throw", code |-> "auth_reauth_required",
              message |-> "Token decryption failed", missing_scopes |-> <<>>,
              login_url |-> getLoginUrl]
        ELSE IF missingScopes # <<>>
        THEN [do |-> "throw", code |-> "auth_scope_insufficient",
              message |-> "Missing required scopes", missing_scopes |-> missingScopes,
              login_url |-> getReAuthUrl(missingScopes)]
        ELSE [do |-> IF NeedsRefresh(tokens[1].expires_at) THEN "refresh" ELSE "return",
              tokens |-> [access_token |-> access[1],
                          refresh_token |-> refresh[1],
                          expires_at |-> tokens[1].expires_at,
                          scope |-> tokens[1].granted_scopes]]

\* the TokenData refreshTokens builds from a successful response
RefreshedTokens(tokenResponse, currentTokens) ==
    [access_token |-> tokenResponse.access_token,
     refresh_token |-> IF Truthy(tokenResponse.refresh_token)
                       THEN tokenResponse.refresh_token[1]
                       ELSE currentTokens.refresh_token,
     expires_at |-> now + tokenResponse.expires_in,
     scope |-> IF tokenResponse.scope # None /\ tokenResponse.scope[1] # <<>>
               THEN tokenResponse.scope[1]
               ELSE currentTokens.scope]

\* getValidAccessToken(user, requiredScopes?) up to its first await, for the user
\* object a caller holds for a stored user
GetValidAccessToken(userId, requiredScopes) ==
    /\ userId \in DOMAIN users
    /\ LET check == TokenCheck(userId, requiredScopes)
       IN  CASE check.do = "throw" ->
                  /\ ret' = [op |-> "getValidAccessToken", phase |-> "call",
                             user_id |-> userId, requiredScopes |-> requiredScopes,
                             outcome |-> "threw",
                             code |-> check.code, message |-> check.message,
                             missing_scopes |-> check.missing_scopes,
                             login_url |-> check.login_url]
                  /\ UNCHANGED <<calls, sent>>
             [] check.do = "return" ->
                  /\ ret' = [op |-> "getValidAccessToken", phase |-> "call",
                             user_id |-> userId, requiredScopes |-> requiredScopes,
                             outcome |-> "returned",
                             access_token |-> check.tokens.access_token]
                  /\ UNCHANGED <<calls, sent>>
             [] check.do = "refresh" ->
                  /\ CanCall(MaxTokenCalls)
                  /\ calls' = (FreeCall :> [kind |-> "token", pc |-> "refresh",
                                            user |-> users[userId],
                                            currentTokens |-> check.tokens]) @@ calls
                  /\ sent' = Send(RefreshRequest(check.tokens.refresh_token))
                  /\ ret' = [op |-> "getValidAccessToken", phase |-> "call",
                             user_id |-> userId, requiredScopes |-> requiredScopes,
                             outcome |-> "awaiting"]
    /\ UNCHANGED <<now, users, sessions, user_tokens, pairing_sessions, defaultUserId, config, uncleaned,
                   started, issued, flows, callbackServer, refreshFailed>>

\* validateToolAccess(user, toolName)
ValidateToolAccess(userId, toolName) ==
    GetValidAccessToken(userId, Some(getToolScopes(toolName)))

\* refreshTokens with its catch block passing a network error on as it is
refreshError_NetworkErrorPassedOn(status) ==
    IF status = "refused"
    THEN [code |-> "auth_reauth_required", message |-> "Token refresh failed"]
    ELSE [code |-> "network_error", message |-> "fetch failed"]

\* the AuthError refreshTokens throws: for a response that is not ok, and from its
\* catch block for an error that carries no code (fetch rejected)
refreshError(status) ==
    IF status = "refused"
    THEN [code |-> "auth_reauth_required", message |-> "Token refresh failed"]
    ELSE [code |-> "auth_reauth_required",
          message |-> "Network error during token refresh"]

\* the token endpoint answers the refresh of a getValidAccessToken call: status is
\* "ok" (with a body), "refused" (a response that is not ok) or "failed" (fetch rejects)
RefreshResponse(c, status, body) ==
    /\ c \in DOMAIN calls
    /\ calls[c].kind = "token"
    /\ calls[c].pc = "refresh"
    /\ calls' = CallsWithout(c)
    /\ LET user == calls[c].user
       IN  CASE status = "refused" ->
                  /\ user_tokens' = deleteUserTokens(user_tokens, user.id)
                  /\ refreshFailed' = refreshFailed \cup {user.id}
                  /\ ret' = [op |-> "getValidAccessToken", phase |-> "response",
                             user_id |-> user.id, status |-> status, outcome |-> "threw",
                             code |-> refreshError(status).code,
                             message |-> refreshError(status).message,
                             login_url |-> getLoginUrl]
             [] status = "failed" ->
                  /\ ret' = [op |-> "getValidAccessToken", phase |-> "response",
                             user_id |-> user.id, status |-> status, outcome |-> "threw",
                             code |-> refreshError(status).code,
                             message |-> refreshError(status).message,
                             login_url |-> getLoginUrl]
                  /\ UNCHANGED <<user_tokens, refreshFailed>>
             [] status = "ok" ->
                  \E iv1 \in FlowIVs, iv2 \in FlowIVs :
                    LET newTokens == RefreshedTokens(body, calls[c].currentTokens)
                        access == encrypt(Some(newTokens.access_token), iv1)
                        refresh == encrypt(Some(newTokens.refresh_token), iv2)
                    IN  /\ user_tokens' =
                              saveUserTokens(user_tokens, user.id,
                                             [x_user_id |-> user.x_user_id,
                                              granted_scopes |-> newTokens.scope,
                                              access_token |-> access[1],
                                              refresh_token |-> refresh[1],
                                              expires_at |-> newTokens.expires_at])
                        /\ ret' = [op |-> "getValidAccessToken", phase |-> "response",
                                   user_id |-> user.id, status |-> status,
                                   outcome |-> "returned", body |-> body,
                                   access_token |-> newTokens.access_token]
                        /\ UNCHANGED refreshFailed
    /\ UNCHANGED <<now, users, sessions, pairing_sessions, defaultUserId, config, uncleaned, started,
                   issued, flows, callbackServer, sent>>

\* the last stretch of an OAuth callback whose code exchange and identity fetch have
\* succeeded: storeUserAndTokens on their results (the flows are SpecHosted, SpecLoopback)
OAuthCompletion(data, tokenResponse) ==
    /\ \E iv1 \in FlowIVs, iv2 \in FlowIVs :
         LET stored == storeUserAndTokens(fetchUserInfo(data),
                                          exchangeCodeForToken(tokenResponse), iv1, iv2)
         IN  /\ stored.user # None
             /\ users' = stored.users
             /\ user_tokens' = stored.user_tokens
             /\ refreshFailed' = refreshFailed \ {stored.user[1].id}
             /\ ret' = [op |-> "storeUserAndTokens", outcome |-> "returned",
                        user_id |-> stored.user[1].id]
    /\ UNCHANGED <<now, sessions, pairing_sessions, defaultUserId, config, uncleaned, started, issued,
                   flows, callbackServer, calls, sent>>

\* TokenManager.clearUserTokens(userId)
ClearUserTokens(userId) ==
    /\ user_tokens' = deleteUserTokens(user_tokens, userId)
    /\ ret' = [op |-> "clearUserTokens", outcome |-> "returned", user_id |-> userId]
    /\ UNCHANGED <<now, users, sessions, pairing_sessions, defaultUserId, config, uncleaned, started,
                   issued, flows, callbackServer, calls, sent, refreshFailed>>

\* XDatabase.createUser(xUserId, username, displayName) for an external id not stored
CreateUser(xUserId, username) ==
    /\ getUserByXUserId(xUserId) = None
    /\ LET row == createUser(xUserId, username, None)
       IN  /\ users' = (row.id :> row) @@ users
           /\ ret' = [op |-> "createUser", outcome |-> "returned", user_id |-> row.id]
    /\ UNCHANGED <<now, sessions, user_tokens, pairing_sessions, defaultUserId, config, uncleaned, started,
                   issued, flows, callbackServer, calls, sent, refreshFailed>>

\* XDatabase.completePairingSession(pairingCode, userId)
CompletePairingSession(pairingCode, userId) ==
    /\ pairing_sessions' = completePairingSession(pairing_sessions, pairingCode, userId)
    /\ uncleaned' = [uncleaned EXCEPT !.pairing_sessions =
                                        completePairingSession(@, pairingCode, userId)]
    /\ ret' = [op |-> "completePairingSession", outcome |-> "returned",
               pairing_code |-> pairingCode, user_id |-> userId]
    /\ UNCHANGED <<now, users, sessions, user_tokens, defaultUserId, config, started, issued,
                   flows, callbackServer, calls, sent, refreshFailed>>

\* XDatabase.cleanupExpiredPairingSessions()
CleanupExpiredPairingSessions ==
    /\ pairing_sessions' = cleanupExpiredPairingSessions(pairing_sessions)
    /\ ret' = [op |-> "cleanupExpiredPairingSessions", outcome |-> "returned"]
    /\ UNCHANGED <<now, users, sessions, user_tokens, defaultUserId, config, uncleaned, started, issued,
                   flows, callbackServer, calls, sent, refreshFailed>>

OptSecrets == {None} \cup {Some(s) : s \in Secrets}

OptSessionIds == {None} \cup {Some(s) : s \in SessionIds}

\* the customExpiry a caller of createSession passes: none, 0 (falsy, so the
\* default applies) or the latest time of the run
OptTimes == {None, Some(0), Some(MaxTime)}

NextSession ==
    \/ Tick(MaxTime)
    \/ \E u \in DOMAIN users, e \in OptTimes : CreateSession(u, e)
    \/ \E s \in SessionIds : GetSession(s)
    \/ \E s \in SessionIds, k \in OptSecrets : ValidateSession(s, k)
    \/ \E s \in SessionIds, k \in OptSecrets : GetUserFromSession(s, k)
    \/ \E s \in OptSessionIds, k \in OptSecrets : RequireUser(s, k)
    \/ \E s \in SessionIds : DeleteSession(s)
    \/ CleanupExpiredSessions

SpecSession == Init /\ [][NextSession]_vars

\* the store's pairing sessions, called directly
NextPairingStore ==
    \/ Tick(MaxTime)
    \/ StartHostedAuth
    \/ \E x \in XUserIds, n \in Usernames : CreateUser(x, n)
    \/ \E c \in PairingCodes, u \in DOMAIN users : CompletePairingSession(c, u)
    \/ \E c \in PairingCodes : CheckPairingStatus(c)
    \/ CleanupExpiredPairingSessions

SpecPairingStore == Init /\ [][NextPairingStore]_vars

\* the states a hosted callback can carry: those generated, and one that was not
CallbackStates == {StateOf("hosted", n) : n \in PairingCodes} \cup {StateOf("forged", 0)}

\* the successful answers of the token endpoint to a code exchange
ExchangeResponses ==
    {r \in TokenResponses : /\ r.access_token = "at1"
                            /\ r.refresh_token \in {None, Some("rt1")}
                            /\ r.expires_in = MaxExpiresIn
                            /\ r.scope = Some(FullScope)}

\* the identities the identity endpoint reports in the flows
FlowIdentities ==
    {[id |-> "x1", username |-> "alice", name |-> ""],
     [id |-> "x1", username |-> "alice2", name |-> "Alice"]}

OptExchangeResponses == {None} \cup {Some(r) : r \in ExchangeResponses}

\* the answers to a hosted callback's exchange: a failure, or a response with a
\* refresh token (the response without one takes the same storeUserAndTokens path
\* as in the loopback flow, where it is explored)
HostedExchangeResponses ==
    {None} \cup {Some(r) : r \in {x \in ExchangeResponses : Truthy(x.refresh_token)}}

OptXUsers == {None} \cup {Some(d) : d \in FlowIdentities}

\* the hosted-pairing flow
NextHosted ==
    \/ Tick(MaxFlowTime)
    \/ StartHostedAuth
    \/ \E code \in AuthCodes, state \in CallbackStates : HandleHostedCallback(code, state)
    \/ \E c \in CallIds, r \in HostedExchangeResponses : HostedExchangeResponse(c, r)
    \/ \E c \in CallIds, d \in OptXUsers : HostedIdentityResponse(c, d)
    \/ \E c \in PairingCodes : CheckPairingStatus(c)
    \/ CleanupExpiredPairingSessions

SpecHosted == Init /\ [][NextHosted]_vars

\* the query parameters a loopback callback can carry
CallbackRequests ==
    [code : {None, Some("")} \cup {Some(a) : a \in AuthCodes},
     state : {None, Some(StateOf("forged", 0))}
             \cup {Some(StateOf("loopback", n)) : n \in FlowIds},
     error : {None, Some("access_denied")}]

\* the loopback flow
NextLoopback ==
    \/ Tick(MaxFlowTime)
    \/ StartLoopbackAuth
    \/ \E f \in FlowIds, q \in CallbackRequests : HandleLoopbackCallback(f, q)
    \/ \E c \in CallIds, r \in OptExchangeResponses : LoopbackExchangeResponse(c, r)
    \/ \E c \in CallIds, d \in OptXUsers : LoopbackIdentityResponse(c, d)

SpecLoopback == Init /\ [][NextLoopback]_vars

\* the two periodic cleanups over sessions and pairing sessions that come and expire
NextCleanup ==
    \/ Tick(MaxTime)
    \/ \E u \in DOMAIN users, e \in OptTimes : CreateSession(u, e)
    \/ StartHostedAuth
    \/ CleanupExpiredSessions
    \/ CleanupExpiredPairingSessions

SpecCleanup == Init /\ [][NextCleanup]_vars

\* the identities of two X users, one of them under two handles and display names
UserIdentities ==
    FlowIdentities \cup {[id |-> "x2", username |-> "alice", name |-> "Alice"]}

\* successful OAuth completions for several X users, with tokens that carry a
\* refresh token
NextUsers ==
    \/ Tick(MaxTime)
    \/ \E d \in UserIdentities, r \in ExchangeResponses : OAuthCompletion(d, r)
    \/ NewSessionManager

SpecUsers == Init /\ [][NextUsers]_vars

\* the identity and the answers of the token endpoint in the Token Manager's runs
TokenIdentity == [id |-> "x1", username |-> "alice", name |-> "Alice"]

CompletionResponses ==
    {r \in TokenResponses : /\ r.access_token = "at1"
                            /\ r.refresh_token = Some("rt1")
                            /\ r.expires_in = MaxExpiresIn
                            /\ r.scope # None}

RefreshResponses ==
    {r \in TokenResponses : /\ r.access_token = "at2"
                            /\ r.refresh_token \in {None, Some("rt2")}
                            /\ r.expires_in = MaxExpiresIn
                            /\ r.scope \in {None, Some(ReadScope)}}

\* the Token Manager
NextToken ==
    \/ Tick(MaxTime)
    \/ \E r \in CompletionResponses : OAuthCompletion(TokenIdentity, r)
    \/ \E u \in DOMAIN users : GetValidAccessToken(u, None)
    \/ \E u \in DOMAIN users, t \in ToolNames : ValidateToolAccess(u, t)
    \/ \E c \in CallIds : RefreshResponse(c, "refused", None)
    \/ \E c \in CallIds : RefreshResponse(c, "failed", None)
    \/ \E c \in CallIds, r \in RefreshResponses : RefreshResponse(c, "ok", r)
    \/ \E u \in DOMAIN users : ClearUserTokens(u)

SpecToken == Init /\ [][NextToken]_vars

----------------------------------------------------------------------------
(* The Token Manager over a store and a configuration found at start-up *)

\* the XConfig a process can get from X_HOSTED_MODE and X_BASE_URL
Configs == [hostedMode : BOOLEAN, baseUrl : {None, Some(""), Some("https://host")}]

\* what a token column of a stored row can hold: a ciphertext of this process's
\* key, a ciphertext written under another key, and a value that is not "iv:data"
StoredCiphertexts(plain) ==
    {encrypt(Some(plain), "iv0")[1], <<"iv0", AES("other key", utf8Write(plain))>>, <<"garbage">>}

\* the users of a store that an earlier process wrote: the local user and one X user
StoredUsers ==
    (2 :> [id |-> 2, created_at |-> 0, display_name |-> "Alice",
           x_user_id |-> "x1", x_username |-> "alice"])
    @@ initializeDefaultUser(<<>>, 0).users

\* the user_tokens rows an earlier process can have left for a user
StoredTokenRows(userId) ==
    [user_id : {userId}, provider : {"x"}, x_user_id : {StoredUsers[userId].x_user_id},
     granted_scopes : ScopeStrings,
     access_token : StoredCiphertexts("at1"),
     refresh_token : StoredCiphertexts("rt1"),
     expires_at : {MaxExpiresIn}, created_at : {0}, updated_at : {0}]

\* new XDatabase() on a store written earlier, under a configuration from the environment
InitStored ==
    /\ now = 0
    /\ users = StoredUsers
    /\ sessions = <<>>
    /\ user_tokens \in {<<>>} \cup {(2 :> row) : row \in StoredTokenRows(2)}
    /\ pairing_sessions = <<>>
    /\ defaultUserId = initializeDefaultUser(StoredUsers, 0).defaultUserId
    /\ config \in Configs
    /\ started = 0
    /\ issued = <<>>
    /\ flows = <<>>
    /\ callbackServer = None
    /\ calls = <<>>
    /\ sent = [last |-> None, flip |-> 0]
    /\ refreshFailed = {}
    /\ uncleaned = [sessions |-> <<>>, pairing_sessions |-> <<>>]
    /\ ret = [op |-> "init"]

NextStored ==
    \/ Tick(MaxTime)
    \/ \E u \in DOMAIN users : GetValidAccessToken(u, None)
    \/ \E u \in DOMAIN users, t \in ToolNames : ValidateToolAccess(u, t)
    \/ \E c \in CallIds : RefreshResponse(c, "refused", None)
    \/ \E c \in CallIds : RefreshResponse(c, "failed", None)
    \/ \E c \in CallIds, r \in RefreshResponses : RefreshResponse(c, "ok", r)

SpecStored == InitStored /\ [][NextStored]_vars

----------------------------------------------------------------------------
(* The Encryption Manager called directly *)

\* the strings encrypt is given: tokens, the empty string, and one-unit strings
\* that are an unpaired surrogate or U+FFFD
Plaintexts == AccessTokens \cup RefreshTokens \cup LoneSurrogates
              \cup {"", ReplacementCharacter}

\* the values randomBytes(16) gives for an IV
IVs == {"iv1", "iv2", "iv3", "iv4", "iv5"}

\* the strings decrypt is given: results of encrypt, ciphertexts written under
\* another key, and a value that is not "iv:data"
EncryptedInputs ==
    UNION {{encrypt(Some(x), iv)[1], <<iv, AES("other key", utf8Write(x))>>} :
              x \in Plaintexts, iv \in IVs}
    \cup {<<"garbage">>}

\* the IV of the encrypt call that ran last, if the last operation was one
LastIV == IF ret.op = "encrypt" THEN {ret.result[1][1]} ELSE {}

\* encryption.encrypt(data) and, as testEncryption does, decrypt of its result;
\* randomBytes(16) gives an IV that the call before did not draw
Encrypt(data) ==
    /\ \E iv \in IVs \ LastIV :
          ret' = [op |-> "encrypt", data |-> data, result |-> encrypt(Some(data), iv),
                  decrypted |-> decrypt(encrypt(Some(data), iv)[1])]
    /\ UNCHANGED <<now, users, sessions, user_tokens, pairing_sessions, defaultUserId,
                   config, uncleaned, started, issued, flows, callbackServer, calls, sent,
                   refreshFailed>>

\* encryption.decrypt(encryptedData)
Decrypt(encryptedData) ==
    /\ ret' = [op |-> "decrypt", encryptedData |-> encryptedData,
               result |-> decrypt(encryptedData)]
    /\ UNCHANGED <<now, users, sessions, user_tokens, pairing_sessions, defaultUserId,
                   config, uncleaned, started, issued, flows, callbackServer, calls, sent,
                   refreshFailed>>

\* encryption.hashPassword(password, salt?)
HashPassword(password, saltOpt) ==
    /\ \E rnd \in Salts :
          ret' = [op |-> "hashPassword", password |-> password, salt |-> saltOpt,
                  result |-> hashPassword(password, saltOpt, rnd)]
    /\ UNCHANGED <<now, users, sessions, user_tokens, pairing_sessions, defaultUserId,
                   config, uncleaned, started, issued, flows, callbackServer, calls, sent,
                   refreshFailed>>

NextEncryption ==
    \/ \E x \in Plaintexts : Encrypt(x)
    \/ \E e \in EncryptedInputs : Decrypt(e)
    \/ \E k \in Secrets, z \in {None} \cup {Some(t) : t \in Salts} : HashPassword(k, z)

SpecEncryption == Init /\ [][NextEncryption]_vars

----------------------------------------------------------------------------
(* Both flows side by side, up to the code exchange *)

\* the starts and callbacks of the hosted and the loopback flow together, with a
\* token endpoint that refuses the exchanges
NextExchange ==
    \/ Tick(MaxFlowTime)
    \/ StartHostedAuth
    \/ StartLoopbackAuth
    \/ \E code \in AuthCodes, state \in CallbackStates : HandleHostedCallback(code, state)
    \/ \E f \in FlowIds, q \in CallbackRequests : HandleLoopbackCallback(f, q)
    \/ \E c \in CallIds : HostedExchangeResponse(c, None)
    \/ \E c \in CallIds : LoopbackExchangeResponse(c, None)
    \/ CleanupExpiredPairingSessions

SpecExchange == Init /\ [][NextExchange]_vars

----------------------------------------------------------------------------
(* The Token Manager for two X users *)

\* what the Authorization Server and the identity endpoint give for two X users:
\* each user has an identity and tokens of their own
UserGrants ==
    {[identity |-> [id |-> "x1", username |-> "alice", name |-> "Alice"],
      response |-> [access_token |-> "at1", refresh_token |-> Some("rt1"),
                    expires_in |-> MaxExpiresIn, scope |-> Some(FullScope)]],
     [identity |-> [id |-> "x2", username |-> "bob", name |-> "Bob"],
      response |-> [access_token |-> "at2", refresh_token |-> Some("rt2"),
                    expires_in |-> MaxExpiresIn, scope |-> Some(FullScope)]]}

\* the successful answers to a refresh: a new access token and nothing else new
RotatedResponses ==
    {r \in TokenResponses : /\ r.refresh_token = None
                            /\ r.expires_in = MaxExpiresIn
                            /\ r.scope = None}

NextIsolation ==
    \/ Tick(MaxFlowTime)
    \/ \E g \in UserGrants : OAuthCompletion(g.identity, g.response)
    \/ \E u \in DOMAIN users : GetValidAccessToken(u, None)
    \/ \E c \in CallIds : RefreshResponse(c, "refused", None)
    \/ \E c \in CallIds : RefreshResponse(c, "failed", None)
    \/ \E c \in CallIds, r \in RotatedResponses : RefreshResponse(c, "ok", r)
    \/ \E u \in DOMAIN users : ClearUserTokens(u)

SpecIsolation == Init /\ [][NextIsolation]_vars

----------------------------------------------------------------------------
(* Both flows side by side, step by step *)

\* the identity endpoint answers for one X user, or fails
OptTokenIdentity == {None, Some(TokenIdentity)}

\* the hosted and the loopback flow together from start to completion, at one
\* instant (no pairing session expires on the way)
NextFlowSteps ==
    \/ StartHostedAuth
    \/ StartLoopbackAuth
    \/ \E code \in AuthCodes, state \in CallbackStates : HandleHostedCallback(code, state)
    \/ \E f \in FlowIds, q \in CallbackRequests : HandleLoopbackCallback(f, q)
    \/ \E c \in CallIds, r \in HostedExchangeResponses : HostedExchangeResponse(c, r)
    \/ \E c \in CallIds, r \in OptExchangeResponses : LoopbackExchangeResponse(c, r)
    \/ \E c \in CallIds, d \in OptTokenIdentity : HostedIdentityResponse(c, d)
    \/ \E c \in CallIds, d \in OptTokenIdentity : LoopbackIdentityResponse(c, d)

SpecFlowSteps == Init /\ [][NextFlowSteps]_vars

----------------------------------------------------------------------------
(* The store's reads over given tables, and the run in which cleanup never executes *)

\* the query of getSession over a sessions table:
\* SELECT * FROM sessions WHERE id = ? AND expires_at > ?
getSessionIn(table, sessionId) ==
    IF sessionId \in DOMAIN table /\ table[sessionId].expires_at > now
    THEN Some(table[sessionId])
    ELSE None

\* validateSession(sessionId, sessionSecret?) over a sessions table
validateSessionIn(table, sessionId, sessionSecret, rnd) ==
    LET session == getSessionIn(table, sessionId)
    IN  IF session = None THEN None
        ELSE IF ~Truthy(sessionSecret) THEN session
        ELSE IF ~verifySessionSecret(sessionSecret[1], session[1].session_secret_hash, rnd)
             THEN None
        ELSE session

\* the query of getPairingSession over a pairing_sessions table:
\* SELECT * FROM pairing_sessions WHERE pairing_code = ? AND expires_at > ?
getPairingSessionIn(table, pairingCode) ==
    IF pairingCode \in DOMAIN table /\ table[pairingCode].expires_at > now
    THEN Some(table[pairingCode])
    ELSE None

\* the query of getPairingSessionByState over a pairing_sessions table:
\* SELECT * FROM pairing_sessions WHERE state = ? AND expires_at > ?
getPairingSessionByStateIn(table, state) ==
    LET codes == {c \in DOMAIN table : table[c].state = state /\ table[c].expires_at > now}
    IN  IF codes = {} THEN None ELSE Some(table[CHOOSE c \in codes : TRUE])

\* checkPairingStatus(pairingCode) over a pairing_sessions table
checkPairingStatusIn(table, pairingCode) ==
    LET session == getPairingSessionIn(table, pairingCode)
        user == IF session = None \/ session[1].user_id = None THEN None
                ELSE getUserById(session[1].user_id[1])
    IN  IF session = None THEN [verified |-> FALSE, user |-> None]
        ELSE IF ~session[1].completed \/ ~TruthyNum(session[1].user_id)
        THEN [verified |-> FALSE, user |-> None]
        ELSE IF user = None THEN [verified |-> FALSE, user |-> None]
        ELSE [verified |-> TRUE,
              user |-> Some([id |-> user[1].id,
                             display_name |-> user[1].display_name,
                             x_username |-> user[1].x_username])]

\* sessions and pairing sessions that are created, completed, deleted and expire
\* within the run, with the two cleanups running at arbitrary points
NextAdvisory ==
    \/ Tick(MaxFlowTime)
    \/ \E u \in DOMAIN users : CreateSession(u, Some(MaxFlowTime))
    \/ \E s \in SessionIds : DeleteSession(s)
    \/ StartHostedAuth
    \/ \E c \in PairingCodes, u \in DOMAIN users : CompletePairingSession(c, u)
    \/ CleanupExpiredSessions
    \/ CleanupExpiredPairingSessions

SpecAdvisory == Init /\ [][NextAdvisory]_vars

----------------------------------------------------------------------------
(* Shutdown after several loopback starts *)

\* the callbacks that reach the server of start f: with its state or another one
ShutdownRequests(f) ==
    {q \in CallbackRequests :
        /\ q.code \in {Some(a) : a \in AuthCodes}
        /\ q.error = None
        /\ q.state \in {Some(StateOf("loopback", f)), Some(StateOf("forged", 0))}}

\* startLoopbackAuth called several times on one OAuthManager, callbacks on the
\* servers that listen, and stop() at any point
NextShutdown ==
    \/ StartLoopbackAuthUpTo(MaxStarts)
    \/ \E f \in 1..MaxStarts : \E q \in ShutdownRequests(f) : HandleLoopbackCallback(f, q)
    \/ \E c \in CallIds, r \in OptExchangeResponses : LoopbackExchangeResponse(c, r)
    \/ \E c \in CallIds, d \in OptTokenIdentity : LoopbackIdentityResponse(c, d)
    \/ Stop

SpecShutdown == Init /\ [][NextShutdown]_vars

----------------------------------------------------------------------------
(* TokenManager: the health check of a user's tokens *)

\* validateUserTokens with its expiry test made without the 60 second buffer
validateUserTokens_NoBuffer(userId, toolName) ==
    LET tokens == getUserTokens(userId)
        missingScopes == IF tokens = None \/ ~Truthy(toolName) THEN <<>>
                         ELSE checkScopes(tokens[1].granted_scopes,
                                          getToolScopes(toolName[1]))
    IN  IF tokens = None
        THEN [valid |-> FALSE, reason |-> Some("No tokens found"),
              missingScopes |-> None, expiresAt |-> None]
        ELSE IF decrypt(tokens[1].access_token) = None
        THEN [valid |-> FALSE, reason |-> Some("Token decryption failed"),
              missingScopes |-> None, expiresAt |-> None]
        ELSE IF now >= tokens[1].expires_at /\ missingScopes # <<>>
        THEN [valid |-> FALSE, reason |-> Some("Token expired and missing scopes"),
              missingScopes |-> Some(missingScopes),
              expiresAt |-> Some(tokens[1].expires_at)]
        ELSE IF now >= tokens[1].expires_at
        THEN [valid |-> FALSE, reason |-> Some("Token expired"),
              missingScopes |-> None, expiresAt |-> Some(tokens[1].expires_at)]
        ELSE IF missingScopes # <<>>
        THEN [valid |-> FALSE, reason |-> Some("Missing required scopes"),
              missingScopes |-> Some(missingScopes), expiresAt |-> None]
        ELSE [valid |-> TRUE, reason |-> None,
              missingScopes |-> None, expiresAt |-> Some(tokens[1].expires_at)]

\* validateUserTokens(user, toolName?): the verdict it returns; a throw of decrypt
\* is caught and gives 'Token decryption failed'
validateUserTokens(userId, toolName) ==
    LET tokens == getUserTokens(userId)
        isExpired == now >= tokens[1].expires_at - RefreshBuffer
        missingScopes == IF tokens = None \/ ~Truthy(toolName) THEN <<>>
                         ELSE checkScopes(tokens[1].granted_scopes,
                                          getToolScopes(toolName[1]))
    IN  IF tokens = None
        THEN [valid |-> FALSE, reason |-> Some("No tokens found"),
              missingScopes |-> None, expiresAt |-> None]
        ELSE IF decrypt(tokens[1].access_token) = None
        THEN [valid |-> FALSE, reason |-> Some("Token decryption failed"),
              missingScopes |-> None, expiresAt |-> None]
        ELSE IF isExpired /\ missingScopes # <<>>
        THEN [valid |-> FALSE, reason |-> Some("Token expired and missing scopes"),
              missingScopes |-> Some(missingScopes),
              expiresAt |-> Some(tokens[1].expires_at)]
        ELSE IF isExpired
        THEN [valid |-> FALSE, reason |-> Some("Token expired"),
              missingScopes |-> None, expiresAt |-> Some(tokens[1].expires_at)]
        ELSE IF missingScopes # <<>>
        THEN [valid |-> FALSE, reason |-> Some("Missing required scopes"),
              missingScopes |-> Some(missingScopes), expiresAt |-> None]
        ELSE [valid |-> TRUE, reason |-> None,
              missingScopes |-> None, expiresAt |-> Some(tokens[1].expires_at)]

\* TokenManager.validateUserTokens(user, toolName?)
ValidateUserTokens(userId, toolName) ==
    /\ ret' = [op |-> "validateUserTokens", outcome |-> "returned", user_id |-> userId,
               toolName |-> toolName, result |-> validateUserTokens(userId, toolName)]
    /\ UNCHANGED <<now, users, sessions, user_tokens, pairing_sessions, defaultUserId, config,
                   uncleaned, started, issued, flows, callbackServer, calls, sent,
                   refreshFailed>>

\* the tool name a caller of validateUserTokens passes, if any
OptToolNames == {None} \cup {Some(t) : t \in ToolNames}

\* the health check over a store written earlier, as time passes
NextHealth ==
    \/ Tick(MaxTime)
    \/ \E u \in DOMAIN users, t \in OptToolNames : ValidateUserTokens(u, t)

SpecHealth == InitStored /\ [][NextHealth]_vars

----------------------------------------------------------------------------
(* XHttpClient.makeRequest *)

\* a number that is not one: what parseInt gives for text without leading digits
NaN == None

\* the x-rate-limit-reset header of a response: absent, text that is not a number,
\* or epoch times in the past and in the future
ResetHeaders == {None, Some(<<"text", "soon">>), Some(<<"int", 0>>),
                 Some(<<"int", MaxTime + 4>>)}

\* what a fetch settles with: a network failure, or a response with a status, a
\* body that parses as JSON or does not, and the reset header
FetchResults ==
    {[kind |-> "failure"]}
    \cup [kind : {"response"}, status : {200, 404}, json : BOOLEAN, reset : {None}]
    \cup [kind : {"response"}, status : {429}, json : {TRUE}, reset : ResetHeaders]
    \cup [kind : {"response"}, status : {500}, json : {TRUE}, reset : {None}]

\* parseInt(response.headers.get('x-rate-limit-reset') || '0')
parseReset(header) ==
    IF header = None THEN Some(0)
    ELSE IF header[1][1] = "int" THEN Some(header[1][2])
    ELSE NaN

\* Math.max(a, b): NaN when an argument is NaN
mathMax(a, b) == IF a = NaN \/ b = NaN THEN NaN
                 ELSE IF a[1] >= b[1] THEN a ELSE b

\* a delay that is the same before every retry
backoff_Constant(attempt) == BaseDelay

\* baseDelay * Math.pow(2, attempt)
backoff(attempt) == BaseDelay * 2^attempt

\* the catch block of makeRequest: rethrow on the last attempt, else sleep and retry
catchError(attempt, error) ==
    IF attempt = MaxRetries
    THEN [do |-> "throw", error |-> error]
    ELSE [do |-> "sleep", waitTime |-> Some(backoff(attempt))]

\* one pass of the loop of makeRequest once its fetch has settled: return, throw,
\* or sleep before the next attempt
afterFetch(attempt, result) ==
    IF result.kind = "failure" THEN catchError(attempt, "fetch failed")
    ELSE IF result.status = 429
    THEN IF attempt < MaxRetries
         THEN [do |-> "sleep",
               waitTime |-> mathMax(IF parseReset(result.reset) = NaN THEN NaN
                                    ELSE Some(parseReset(result.reset)[1] - now),
                                    Some(backoff(attempt)))]
         ELSE catchError(attempt, "Rate limit exceeded")
    ELSE IF result.status >= 500
    THEN IF attempt < MaxRetries
         THEN [do |-> "sleep", waitTime |-> Some(backoff(attempt))]
         ELSE catchError(attempt, "Server error")
    ELSE IF ~result.json THEN catchError(attempt, "invalid json")
    ELSE IF result.status # 200 THEN catchError(attempt, "API error")
    ELSE [do |-> "return"]

\* makeRequest(endpoint, accessToken, options) up to its first fetch
MakeRequest ==
    /\ CanCall(MaxFlowCalls)
    /\ calls' = (FreeCall :> [kind |-> "request", pc |-> "fetch", attempt |-> 0,
                              fetches |-> 1]) @@ calls
    /\ ret' = [op |-> "makeRequest", call |-> FreeCall, outcome |-> "awaiting"]
    /\ UNCHANGED <<now, users, sessions, user_tokens, pairing_sessions, defaultUserId, config,
                   uncleaned, started, issued, flows, callbackServer, sent, refreshFailed>>

\* the fetch of call c settles
FetchSettles(c, result) ==
    /\ c \in DOMAIN calls
    /\ calls[c].kind = "request"
    /\ calls[c].pc = "fetch"
    /\ LET step == afterFetch(calls[c].attempt, result)
       IN  /\ calls' = IF step.do = "sleep"
                       THEN [calls EXCEPT ![c].pc = "sleep"]
                       ELSE CallsWithout(c)
           /\ ret' = [op |-> "makeRequest", call |-> c, result |-> result,
                      attempt |-> calls[c].attempt, fetches |-> calls[c].fetches,
                      outcome |-> CASE step.do = "sleep" -> "sleeping"
                                    [] step.do = "throw" -> "threw"
                                    [] OTHER -> "returned",
                      waitTime |-> IF step.do = "sleep" THEN step.waitTime ELSE NaN]
    /\ UNCHANGED <<now, users, sessions, user_tokens, pairing_sessions, defaultUserId, config,
                   uncleaned, started, issued, flows, callbackServer, sent, refreshFailed>>

\* the timer of sleep(waitTime) fires: attempt++, then the loop condition and the
\* next fetch, or the throw after the loop
SleepEnds(c) ==
    /\ c \in DOMAIN calls
    /\ calls[c].kind = "request"
    /\ calls[c].pc = "sleep"
    /\ IF calls[c].attempt + 1 <= MaxRetries
       THEN /\ calls' = [calls EXCEPT ![c].pc = "fetch", ![c].attempt = @ + 1,
                                      ![c].fetches = @ + 1]
            /\ ret' = [op |-> "makeRequest", call |-> c, outcome |-> "awaiting"]
       ELSE /\ calls' = CallsWithout(c)
            /\ ret' = [op |-> "makeRequest", call |-> c, outcome |-> "threw",
                       attempt |-> calls[c].attempt + 1, fetches |-> calls[c].fetches,
                       result |-> [kind |-> "none"], waitTime |-> NaN]
    /\ UNCHANGED <<now, users, sessions, user_tokens, pairing_sessions, defaultUserId, config,
                   uncleaned, started, issued, flows, callbackServer, sent, refreshFailed>>

\* requests to the API as time passes
NextRequest ==
    \/ Tick(MaxTime)
    \/ MakeRequest
    \/ \E c \in CallIds, r \in FetchResults : FetchSettles(c, r)
    \/ \E c \in CallIds : SleepEnds(c)

SpecRequest == Init /\ [][NextRequest]_vars

\* every fetch settles and every timer fires
SpecRequestFair ==
    /\ SpecRequest
    /\ \A c \in CallIds : /\ WF_vars(\E r \in FetchResults : FetchSettles(c, r))
                          /\ WF_vars(SleepEnds(c))

----------------------------------------------------------------------------
(* The scopes the OAuth flow requests, granted as requested *)

\* OAuthManager.getRequiredScopes(): the scopes of the authorization URL
OAuthManager_getRequiredScopes ==
    <<"users.read", "tweet.read", "tweet.write", "bookmark.read",
      "bookmarks.write", "offline.access">>

\* OAuthManager.getScopesString(): the scopes joined by spaces, as the sequence of
\* the words of the string
getScopesString == OAuthManager_getRequiredScopes

\* the token endpoint's answers to a code exchange that grant the scope parameter of
\* the authorization URL as it was sent
GrantResponses ==
    [access_token : {"at1"}, refresh_token : {Some("rt1")},
     expires_in : {MaxExpiresIn}, scope : {Some(getScopesString)}]

\* OAuth completions under such grants, and the Token Manager's calls after them
NextGrant ==
    \/ Tick(MaxTime)
    \/ \E r \in GrantResponses : OAuthCompletion(TokenIdentity, r)
    \/ \E u \in DOMAIN users, t \in ToolNames : ValidateToolAccess(u, t)
    \/ \E c \in CallIds : RefreshResponse(c, "refused", None)
    \/ \E c \in CallIds : RefreshResponse(c, "failed", None)
    \/ \E c \in CallIds, r \in RefreshResponses : RefreshResponse(c, "ok", r)

SpecGrant == Init /\ [][NextGrant]_vars

----------------------------------------------------------------------------
(* The callback route of one loopback server requested more than once *)

\* one loopback flow whose callback route is requested again, with the state of the
\* flow or another one, while earlier requests are still being handled
NextCallbacks ==
    \/ StartLoopbackAuth
    \/ \E f \in FlowIds : \E q \in ShutdownRequests(f) :
         HandleLoopbackCallbackUpTo(f, q, MaxCallbacks)
    \/ \E c \in CallIds, r \in OptExchangeResponses : LoopbackExchangeResponse(c, r)
    \/ \E c \in CallIds, d \in OptTokenIdentity : LoopbackIdentityResponse(c, d)

SpecCallbacks == Init /\ [][NextCallbacks]_vars

----------------------------------------------------------------------------
(* Session Manager: the claims *)

SessionReads == {"getSession", "validateSession", "getUserFromSession"}

\* the session of the last operation is stored and not expired
LiveSession(sessionId) ==
    sessionId \in DOMAIN sessions /\ sessions[sessionId].expires_at > now

\* C2: validateSession with the secret createSession returned yields the session,
\* as long as the session is unexpired and not deleted.
C2_CorrectSecretValidates ==
    (/\ ret.op = "validateSession"
     /\ LiveSession(ret.sessionId)
     /\ ret.sessionSecret = Some(issued[ret.sessionId].sessionSecret))
    => ret.result = Some(sessions[ret.sessionId])

\* C3 as stated: validateSession with any supplied secret other than the one
\* createSession returned yields none.
C3_AnyOtherSecretFails ==
    (/\ ret.op = "validateSession"
     /\ ret.sessionId \in DOMAIN issued
     /\ ret.sessionSecret # None
     /\ ret.sessionSecret[1] # issued[ret.sessionId].sessionSecret)
    => ret.result = None

\* C3 amended: validateSession with any supplied non-empty secret other than the
\* one createSession returned yields none (the empty string counts as no secret).
C3_OtherNonEmptySecretFails ==
    (/\ ret.op = "validateSession"
     /\ ret.sessionId \in DOMAIN issued
     /\ ret.sessionSecret # None
     /\ ret.sessionSecret[1] # ""
     /\ ret.sessionSecret[1] # issued[ret.sessionId].sessionSecret)
    => ret.result = None

\* a stored, unexpired session was presented with a wrong non-empty secret and refused
C3_Witness ==
    /\ ret.op = "validateSession"
    /\ LiveSession(ret.sessionId)
    /\ ret.sessionSecret # None
    /\ ret.sessionSecret[1] # ""
    /\ ret.sessionSecret[1] # issued[ret.sessionId].sessionSecret
    /\ ret.result = None

\* C4: no session read succeeds at or after the session's expires_at, whether or
\* not cleanup has removed the row.
C4_NoReadPastExpiry ==
    (/\ ret.op \in SessionReads
     /\ ret.sessionId \in DOMAIN issued
     /\ now >= issued[ret.sessionId].expires_at)
    => ret.result = None

\* a session was read exactly at its expires_at while its row was still stored
C4_Witness ==
    /\ ret.op \in SessionReads
    /\ ret.sessionId \in DOMAIN sessions
    /\ now = sessions[ret.sessionId].expires_at
    /\ ret.result = None

----------------------------------------------------------------------------
(* Pairing sessions and the OAuth flows: the claims *)

\* C1: completePairingSession(code, userId) leaves the row's user_id and completed
\* flag unchanged when the session was already completed by an earlier call, and
\* when it is called at or after the session's expires_at.
C1_CompleteOnceBeforeExpiry ==
    [][(/\ ret'.op = "completePairingSession"
        /\ ret'.pairing_code \in DOMAIN pairing_sessions
        /\ \/ pairing_sessions[ret'.pairing_code].completed
           \/ now >= pairing_sessions[ret'.pairing_code].expires_at)
       => /\ pairing_sessions'[ret'.pairing_code].user_id
               = pairing_sessions[ret'.pairing_code].user_id
          /\ pairing_sessions'[ret'.pairing_code].completed
               = pairing_sessions[ret'.pairing_code].completed]_vars

\* C5: after a loopback flow completes successfully, a caller that presents no
\* session is resolved to the bootstrap local user and validateToolAccess gives
\* that user an access token (it does not throw).
C5_LoopbackTokensForLocalUser ==
    (/\ ret.op = "handleLoopbackCallback"
     /\ ret.outcome = "returned")
    => \A rnd \in Salts :
         LET user == getUserFromSession(None, None, rnd)
         IN  /\ user # None
             /\ TokenCheck(user[1].id, Some(getToolScopes("users.read"))).do # "throw"

\* the pairing sessions with the given state that are completed
CompletedWithState(state) ==
    {c \in DOMAIN pairing_sessions : /\ pairing_sessions[c].state = state
                                     /\ pairing_sessions[c].completed}

\* C6: once a pairing session is completed and bound to a user, no step of a
\* handleHostedCallback carrying its state completes it again, changes the bound
\* user id, or writes a token record.
C6_NotCompletableTwice ==
    [][(/\ ret'.op = "handleHostedCallback"
        /\ CompletedWithState(ret'.state) # {})
       => /\ pairing_sessions' = pairing_sessions
          /\ user_tokens' = user_tokens]_vars

\* C7: a loopback callback whose state parameter is not exactly the state generated
\* for its flow (an absent state included) fails: no code exchange is sent and no
\* User or UserToken row is created or changed.
C7_StateMismatchFails ==
    [][(/\ ret'.op = "handleLoopbackCallback"
        /\ ret'.phase = "callback"
        /\ ret'.state # Some(flows[ret'.flow].expectedState))
       => /\ ret'.outcome = "threw"
          /\ sent' = sent
          /\ calls' = calls
          /\ users' = users
          /\ user_tokens' = user_tokens]_vars

\* a callback without a state parameter, with a code and no error, was refused
C7_Witness ==
    /\ ret.op = "handleLoopbackCallback"
    /\ ret.phase = "callback"
    /\ ret.state = None
    /\ ret.outcome = "threw"
    /\ ret.error = "Invalid state parameter"

\* C8: in both flows, a callback step that fails leaves the users and user_tokens
\* tables exactly as they were.
C8_FailureLeavesNoRecords ==
    [][(/\ ret'.op \in {"handleHostedCallback", "handleLoopbackCallback"}
        /\ ret'.outcome = "threw")
       => /\ users' = users
          /\ user_tokens' = user_tokens]_vars

----------------------------------------------------------------------------
(* Token Manager: the claims *)

\* C9: getValidAccessToken, for stored tokens that pass its checks, sends a refresh
\* when the current time is within the buffer of (or past) the stored expires_at and
\* then returns the access token of the refresh response; otherwise it returns the
\* stored access token and sends nothing.
C9_RefreshWithinWindow ==
    [][/\ (/\ ret'.op = "getValidAccessToken"
           /\ ret'.phase = "call"
           /\ ret'.outcome # "threw")
          => LET tokens == getUserTokens(ret'.user_id)[1]
             IN  IF tokens.expires_at - now <= RefreshBuffer
                 THEN /\ ret'.outcome = "awaiting"
                      /\ sent'.flip # sent.flip
                      /\ sent'.last =
                           Some(RefreshRequest(decrypt(tokens.refresh_token)[1]))
                 ELSE /\ ret'.outcome = "returned"
                      /\ ret'.access_token = decrypt(tokens.access_token)[1]
                      /\ sent' = sent
       /\ (/\ ret'.op = "getValidAccessToken"
           /\ ret'.phase = "response"
           /\ ret'.outcome = "returned")
          => ret'.access_token = ret'.body.access_token]_vars

\* getValidAccessToken was called exactly RefreshBuffer before expiry, refreshed, and
\* returned the access token of the response
C9_Witness ==
    /\ ret.op = "getValidAccessToken"
    /\ ret.phase = "response"
    /\ ret.outcome = "returned"
    /\ ret.access_token = "at2"
    /\ sent.last # None

\* C10: when the token endpoint refuses a refresh, the user's token row is deleted
\* and getValidAccessToken fails with auth_reauth_required; afterwards getUserTokens
\* for that user returns nothing until a new OAuth completion stores tokens.
C10_RefreshFailureRevokes ==
    /\ (/\ ret.op = "getValidAccessToken"
        /\ ret.phase = "response"
        /\ ret.status = "refused")
       => /\ getUserTokens(ret.user_id) = None
          /\ ret.outcome = "threw"
          /\ ret.code = "auth_reauth_required"
    /\ \A u \in refreshFailed : getUserTokens(u) = None

\* C11: a getValidAccessToken call sends at most one request to the token endpoint
\* (one when it starts a refresh, none when the answer arrives, and the call ends
\* there), and a refresh that fails at the network level makes the call fail with
\* auth_reauth_required.
C11_NetworkFailureNotRetried ==
    [][/\ (/\ ret'.op = "getValidAccessToken"
           /\ ret'.phase = "call")
          => /\ (sent' # sent) <=> (ret'.outcome = "awaiting")
             /\ Cardinality(DOMAIN calls') <= Cardinality(DOMAIN calls) + 1
       /\ (/\ ret'.op = "getValidAccessToken"
           /\ ret'.phase = "response")
          => /\ sent' = sent
             /\ Cardinality(DOMAIN calls') = Cardinality(DOMAIN calls) - 1
             /\ (ret'.status = "failed")
                  => /\ ret'.outcome = "threw"
                     /\ ret'.code = "auth_reauth_required"]_vars

\* a refresh failed at the network level and its call threw, with no call left in flight
C11_Witness ==
    /\ ret.op = "getValidAccessToken"
    /\ ret.phase = "response"
    /\ ret.status = "failed"
    /\ ret.outcome = "threw"
    /\ calls = <<>>

\* the provider's names for one scope: the read-bookmarks scope has two
AliasesOf(scope) ==
    IF scope \in {"bookmark.read", "bookmarks.read"}
    THEN {"bookmark.read", "bookmarks.read"}
    ELSE {scope}

\* the required scopes that a grant lacks under every one of their names
Lacking(granted, required) ==
    LET NotGranted(r) == \A a \in AliasesOf(r) : ~Includes(granted, a)
    IN  SelectSeq(required, NotGranted)

\* the last operation was the scope check of a call with required scopes, for a
\* user with stored tokens
ScopeChecked ==
    /\ ret.op = "getValidAccessToken"
    /\ ret.phase = "call"
    /\ ret.requiredScopes # None
    /\ getUserTokens(ret.user_id) # None

\* C12: for a user with stored tokens and every tool, validateToolAccess fails with
\* auth_scope_insufficient carrying exactly the required scopes the grant lacks,
\* and passes the scope check when the grant lacks none.
C12_MissingScopesReported ==
    ScopeChecked
    => LET granted == SplitScopes(getUserTokens(ret.user_id)[1].granted_scopes)
           lacking == Lacking(granted, ret.requiredScopes[1])
           insufficient == ret.outcome = "threw" /\ ret.code = "auth_scope_insufficient"
       IN  IF lacking # <<>>
           THEN insufficient /\ ret.missing_scopes = lacking
           ELSE ~insufficient

\* C13: a grant that contains only one of bookmark.read and bookmarks.read satisfies
\* the read-bookmarks requirement: validateToolAccess(user, "bookmarks.list") does
\* not fail with auth_scope_insufficient.
C13_BookmarkReadAliases ==
    (/\ ScopeChecked
     /\ ret.requiredScopes = Some(getToolScopes("bookmarks.list"))
     /\ LET granted == SplitScopes(getUserTokens(ret.user_id)[1].granted_scopes)
        IN  Includes(granted, "bookmark.read") # Includes(granted, "bookmarks.read"))
    => ~(ret.outcome = "threw" /\ ret.code = "auth_scope_insufficient")

\* the AuthStatusResponse for a stored user
VerifiedAs(userId) ==
    [verified |-> TRUE,
     user |-> Some([id |-> userId,
                    display_name |-> users[userId].display_name,
                    x_username |-> users[userId].x_username])]

\* the pairing session with the code is stored, completed and bound to a stored user
CompletedAndBound(pairingCode) ==
    /\ pairingCode \in DOMAIN pairing_sessions
    /\ pairing_sessions[pairingCode].completed
    /\ pairing_sessions[pairingCode].user_id # None
    /\ pairing_sessions[pairingCode].user_id[1] \in DOMAIN users

\* C14 as stated: checkPairingStatus(code) returns verified=true with the bound user
\* exactly when a pairing session with that code exists, is completed and its bound
\* user id resolves to a User; otherwise verified=false.
C14_VerifiedIffCompletedAndBound ==
    (ret.op = "checkPairingStatus")
    => ret.result = IF CompletedAndBound(ret.pairing_code)
                    THEN VerifiedAs(pairing_sessions[ret.pairing_code].user_id[1])
                    ELSE [verified |-> FALSE, user |-> None]

\* C14 amended: checkPairingStatus(code) returns verified=true with the bound user
\* exactly when a pairing session with that code exists, has not expired, is
\* completed and its bound user id resolves to a User; otherwise verified=false.
C14_VerifiedIffLiveCompletedAndBound ==
    (ret.op = "checkPairingStatus")
    => ret.result = IF /\ CompletedAndBound(ret.pairing_code)
                       /\ pairing_sessions[ret.pairing_code].expires_at > now
                    THEN VerifiedAs(pairing_sessions[ret.pairing_code].user_id[1])
                    ELSE [verified |-> FALSE, user |-> None]

\* after a hosted callback completed the pairing session, checkPairingStatus
\* returned verified=true with a user that an OAuth completion created
C14_Witness ==
    /\ ret.op = "checkPairingStatus"
    /\ ret.result.verified
    /\ ret.result.user[1].id # defaultUserId[1]
    /\ getUserTokens(ret.result.user[1].id) # None

\* the pairing session started with this code ran out of its TTL without being
\* completed (its row is expired and not completed, or cleanup has removed it)
ExpiredUncompleted(pairingCode) ==
    /\ pairingCode <= started
    /\ \/ pairingCode \notin DOMAIN pairing_sessions
       \/ /\ pairing_sessions[pairingCode].expires_at <= now
          /\ ~pairing_sessions[pairingCode].completed

\* C15: once a pairing session's TTL has elapsed without completion it stays so
\* whatever runs later (callback, completion, cleanup), and every
\* checkPairingStatus(code) from then on returns verified=false.
C15_ExpiredNeverVerifies ==
    [][\A c \in PairingCodes :
         ExpiredUncompleted(c)
         => /\ ExpiredUncompleted(c)'
            /\ (ret'.op = "checkPairingStatus" /\ ret'.pairing_code = c)
                 => ~ret'.result.verified]_vars

\* the row of an expired, uncompleted pairing session is still stored, a callback
\* for it has stored a user's tokens, and checkPairingStatus returned verified=false
C15_Witness ==
    /\ ret.op = "checkPairingStatus"
    /\ ret.pairing_code \in DOMAIN pairing_sessions
    /\ ExpiredUncompleted(ret.pairing_code)
    /\ user_tokens # <<>>
    /\ ~ret.result.verified

----------------------------------------------------------------------------
(* The store: the claims *)

\* C16: cleanupExpiredSessions and cleanupExpiredPairingSessions keep every row
\* whose expires_at is still in the future, unchanged, and a second call at the same
\* clock value would change nothing.
C16_CleanupSafeAndIdempotent ==
    [][/\ (ret'.op = "cleanupExpiredSessions")
          => /\ \A s \in DOMAIN sessions :
                  sessions[s].expires_at > now
                  => s \in DOMAIN sessions' /\ sessions'[s] = sessions[s]
             /\ now' = now
             /\ SessionsAfterCleanup' = sessions'
       /\ (ret'.op = "cleanupExpiredPairingSessions")
          => /\ \A c \in DOMAIN pairing_sessions :
                  pairing_sessions[c].expires_at > now
                  => /\ c \in DOMAIN pairing_sessions'
                     /\ pairing_sessions'[c] = pairing_sessions[c]
             /\ now' = now
             /\ cleanupExpiredPairingSessions(pairing_sessions)' = pairing_sessions']_vars

\* a cleanup of sessions ran, kept an unexpired session, and the expired pairing
\* session had been removed by the other cleanup
C16_Witness ==
    /\ ret.op = "cleanupExpiredSessions"
    /\ \E s \in DOMAIN sessions : sessions[s].expires_at > now
    /\ started > 0
    /\ pairing_sessions = <<>>

\* C17: each user has at most one user_tokens row (the row stored under a user id is
\* that user's), and every write of a row is an upsert: a row written over an
\* existing one keeps that row's created_at, a new row gets the write time, and
\* updated_at is the write time.
C17_TokenUpsert ==
    [][\A u \in DOMAIN user_tokens' :
         /\ user_tokens'[u].user_id = u
         /\ (u \notin DOMAIN user_tokens \/ user_tokens'[u] # user_tokens[u])
            => /\ user_tokens'[u].updated_at = now
               /\ user_tokens'[u].created_at =
                     IF u \in DOMAIN user_tokens
                     THEN user_tokens[u].created_at
                     ELSE now]_vars

\* a refresh replaced the token fields of a row stored earlier: new access token,
\* created_at older than updated_at
C17_Witness ==
    /\ ret.op = "getValidAccessToken"
    /\ ret.phase = "response"
    /\ ret.outcome = "returned"
    /\ ret.user_id \in DOMAIN user_tokens
    /\ decrypt(user_tokens[ret.user_id].access_token) = Some(ret.access_token)
    /\ user_tokens[ret.user_id].created_at < user_tokens[ret.user_id].updated_at

\* C18: through successful OAuth completions there is one User row per external
\* user id; a row keeps its internal id, external id and created_at for ever; and a
\* completion changes at most the handle and display name of the row of its own user.
C18_OneUserRowPerExternalId ==
    [][/\ \A i \in DOMAIN users :
            /\ i \in DOMAIN users'
            /\ users'[i].id = users[i].id
            /\ users'[i].x_user_id = users[i].x_user_id
            /\ users'[i].created_at = users[i].created_at
            /\ users'[i] # users[i]
               => ret'.op = "storeUserAndTokens" /\ ret'.user_id = i
       /\ \A i \in DOMAIN users', j \in DOMAIN users' :
            users'[i].x_user_id = users'[j].x_user_id => i = j
       /\ \A i \in DOMAIN users' : users'[i].id = i]_vars

\* a later completion for an X user changed the handle and display name of the row
\* created at its first completion, with the row of another X user stored as well
C18_Witness ==
    /\ ret.op = "storeUserAndTokens"
    /\ users[ret.user_id].x_username = "alice2"
    /\ users[ret.user_id].display_name = "Alice"
    /\ users[ret.user_id].created_at < now
    /\ Cardinality(DOMAIN users) = 3

\* the rows of the users table that carry the local sentinel as external id
LocalUserRows == {i \in DOMAIN users : users[i].x_user_id = LOCAL_X_USER_ID}

\* C19: after any number of SessionManager initializations over the same store
\* there is exactly one User row with the local sentinel external id, and every
\* initialization resolves the default user to that row's id and changes no row.
C19_BootstrapUserIdempotent ==
    [][/\ Cardinality(LocalUserRows') = 1
       /\ LocalUserRows' = LocalUserRows
       /\ defaultUserId' = defaultUserId
       /\ defaultUserId'[1] \in LocalUserRows'
       /\ (ret'.op = "initializeDefaultUser") => users' = users]_vars

\* a SessionManager was initialized again over a store that already held the local
\* user and the users of OAuth completions
C19_Witness ==
    /\ ret.op = "initializeDefaultUser"
    /\ ret.user_id = 1
    /\ Cardinality(DOMAIN users) = 3
    /\ now > 0

\* C20: requireUser returns the bootstrap local user when no session id is given,
\* returns the session's owning user when the session validates, and throws
\* auth_invalid_session in every case where no user resolves (unknown, expired or
\* deleted session, failed secret check); it never returns nothing.
C20_RequireUserOrInvalidSession ==
    (ret.op = "requireUser")
    => /\ ret.result.outcome = "returned" => ret.result.user # None
       /\ ret.result.outcome = "threw" => ret.result.code = Some("auth_invalid_session")
       /\ IF ret.sessionId = None
          THEN /\ ret.result.outcome = "returned"
               /\ ret.result.user = Some(users[defaultUserId[1]])
               /\ ret.result.user[1].x_user_id = LOCAL_X_USER_ID
          ELSE IF ret.session # None
          THEN /\ ret.result.outcome = "returned"
               /\ ret.result.user = Some(users[sessions[ret.sessionId[1]].user_id])
          ELSE ret.result.outcome = "threw"
       /\ (/\ ret.sessionId # None
           /\ ~LiveSession(ret.sessionId[1]))
          => ret.result.outcome = "threw"
       /\ (/\ ret.sessionId # None
           /\ ret.sessionId[1] \in DOMAIN issued
           /\ Truthy(ret.sessionSecret)
           /\ ret.sessionSecret[1] # issued[ret.sessionId[1]].sessionSecret)
          => ret.result.outcome = "threw"

\* requireUser threw for a session that was created and has expired, its row still stored
C20_Witness ==
    /\ ret.op = "requireUser"
    /\ ret.sessionId # None
    /\ ret.sessionId[1] \in DOMAIN sessions
    /\ sessions[ret.sessionId[1]].expires_at <= now
    /\ ret.result.outcome = "threw"

----------------------------------------------------------------------------
(* Token Manager: missing and undecryptable rows *)

\* the user has no token row, or a token column of the row does not decrypt
Unreadable(userId) ==
    \/ userId \notin DOMAIN user_tokens
    \/ decrypt(user_tokens[userId].access_token) = None
    \/ decrypt(user_tokens[userId].refresh_token) = None

\* C21: getValidAccessToken and validateToolAccess throw auth_reauth_required with a
\* login URL hint whenever the user has no token row or a stored ciphertext does not
\* decrypt, and return no token in those states.
C21_UnreadableMeansReauth ==
    (/\ ret.op = "getValidAccessToken"
     /\ ret.phase = "call"
     /\ Unreadable(ret.user_id))
    => /\ ret.outcome = "threw"
       /\ ret.code = "auth_reauth_required"
       /\ ret.login_url # None
       /\ ret.login_url[1] # <<>>

\* validateToolAccess threw for a row whose refresh token was written under another key
C21_Witness ==
    /\ ret.op = "getValidAccessToken"
    /\ ret.phase = "call"
    /\ ret.requiredScopes # None
    /\ ret.user_id \in DOMAIN user_tokens
    /\ decrypt(user_tokens[ret.user_id].access_token) # None
    /\ decrypt(user_tokens[ret.user_id].refresh_token) = None
    /\ ret.outcome = "threw"
    /\ config.hostedMode

----------------------------------------------------------------------------
(* Encryption Manager *)

\* C22: decrypt(encrypt(x)) = x for every plaintext x, and two encrypt calls on the
\* same plaintext return different ciphertext strings.
C22_RoundTripAndFreshCiphertext ==
    [][ret'.op = "encrypt"
       => /\ ret'.decrypted = Some(ret'.data)
          /\ (ret.op = "encrypt" /\ ret.data = ret'.data)
             => ret'.result # ret.result]_vars

----------------------------------------------------------------------------
(* OAuth Flow Controller: the verifier of a code exchange *)

\* the flow instances that were started: the n-th of a kind
FlowInstances ==
    {<<"hosted", n>> : n \in 1..started}
    \cup {<<"loopback", n>> : n \in DOMAIN flows}

\* the state the callback that ran last carried, if it carried one
CallbackState ==
    IF ret.op = "handleLoopbackCallback" THEN ret.state ELSE Some(ret.state)

\* a code exchange for the callback that ran last has just been sent
ExchangeSent ==
    /\ sent'.flip # sent.flip
    /\ sent'.last[1].grant_type = "authorization_code"

\* C23: every code exchange sent carries the code verifier generated at the start
\* of the flow instance whose state the callback returned (loopback: the verifier
\* whose SHA-256 challenge is in the authorization URL; hosted: the verifier of the
\* pairing session found by the state), never the verifier of another flow instance.
C23_ExchangeUsesOwnVerifier ==
    [][ExchangeSent
       => \E i \in FlowInstances' :
             /\ CallbackState' = Some(StateOf(i[1], i[2]))
             /\ sent'.last[1].secret = VerifierOf(i[1], i[2])
             /\ i[1] = "loopback"
                => flows'[i[2]].challenge = generateCodeChallenge(sent'.last[1].secret)]_vars

\* a hosted callback has sent its exchange while a loopback flow is pending too
C23_Witness ==
    /\ ret.op = "handleHostedCallback"
    /\ ret.outcome = "awaiting"
    /\ sent.last = Some(ExchangeRequest("c1", VerifierOf("hosted", 1)))
    /\ \E f \in DOMAIN flows : flows[f].listening

----------------------------------------------------------------------------
(* Token Manager: isolation between users *)

\* the operations of the Token Manager and the OAuth completion, each for one user
PerUserOps == {"getValidAccessToken", "storeUserAndTokens", "clearUserTokens"}

\* the token row of a user in a user_tokens table, if any
TokenRowOf(table, userId) ==
    IF userId \in DOMAIN table THEN Some(table[userId]) ELSE None

\* C24: an operation performed for user A (getValidAccessToken, a refresh that
\* succeeds or fails, clearUserTokens, an OAuth completion) leaves the token row of
\* every other user B unchanged, and an access token returned for A is the one
\* held in A's own row.
C24_PerUserIsolation ==
    [][ret'.op \in PerUserOps
       => /\ \A b \in DOMAIN users' \ {ret'.user_id} :
               TokenRowOf(user_tokens', b) = TokenRowOf(user_tokens, b)
          /\ (ret'.op = "getValidAccessToken" /\ ret'.outcome = "returned")
             => /\ TokenRowOf(user_tokens', ret'.user_id) # None
                /\ decrypt(user_tokens'[ret'.user_id].access_token)
                      = Some(ret'.access_token)]_vars

\* a refused refresh has deleted the row of one user while another user holds a row
C24_Witness ==
    /\ ret.op = "getValidAccessToken"
    /\ ret.phase = "response"
    /\ ret.status = "refused"
    /\ ret.user_id \notin DOMAIN user_tokens
    /\ \E b \in DOMAIN user_tokens : b # ret.user_id

----------------------------------------------------------------------------
(* OAuth Flow Controller: hosted callbacks that match no live pairing session *)

\* every pairing session with the state, if there is one, has reached its expires_at
NoLiveSessionFor(state) ==
    \A c \in DOMAIN pairing_sessions :
        pairing_sessions[c].state = state => pairing_sessions[c].expires_at <= now

\* C25: handleHostedCallback with a state that matches no pairing session, or only
\* one whose expires_at has passed, fails before any code exchange: no request is
\* sent to the token endpoint and no users, user_tokens or pairing_sessions row changes.
C25_UnknownStateFailsEarly ==
    [][(/\ ret'.op = "handleHostedCallback"
        /\ ret'.phase = "callback"
        /\ NoLiveSessionFor(ret'.state))
       => /\ ret'.outcome = "threw"
          /\ sent' = sent
          /\ calls' = calls
          /\ users' = users
          /\ user_tokens' = user_tokens
          /\ pairing_sessions' = pairing_sessions]_vars

\* a hosted callback was refused for the state of a pairing session that is still
\* stored and has expired
C25_Witness ==
    /\ ret.op = "handleHostedCallback"
    /\ ret.phase = "callback"
    /\ ret.outcome = "threw"
    /\ \E c \in DOMAIN pairing_sessions :
          /\ pairing_sessions[c].state = ret.state
          /\ pairing_sessions[c].expires_at <= now

----------------------------------------------------------------------------
(* Session Manager: validation without a secret *)

\* C26: validateSession with a session id and no secret accepts every unexpired,
\* undeleted session on the id alone, and the session returned has the user_id of
\* the user it was created for.
C26_NoSecretAcceptedOnId ==
    (/\ ret.op = "validateSession"
     /\ ret.sessionSecret = None
     /\ LiveSession(ret.sessionId))
    => /\ ret.result = Some(sessions[ret.sessionId])
       /\ ret.result[1].user_id = issued[ret.sessionId].user_id

\* validateSession without a secret returned a session that was created with one
C26_Witness ==
    /\ ret.op = "validateSession"
    /\ ret.sessionSecret = None
    /\ ret.result # None
    /\ ret.result[1].id = ret.sessionId
    /\ ret.sessionId \in DOMAIN issued

----------------------------------------------------------------------------
(* OAuth Flow Controller: the order of the steps of a flow *)

FlowOps == {"handleHostedCallback", "handleLoopbackCallback"}

\* a callback has passed its checks and its call is now in flight
Entered(c) == c \in DOMAIN calls' /\ c \notin DOMAIN calls

\* a call in flight has moved on to its next await
Advanced(c) == c \in DOMAIN calls /\ c \in DOMAIN calls' /\ calls'[c] # calls[c]

\* a call in flight has thrown or returned
Ended(c) == c \in DOMAIN calls /\ c \notin DOMAIN calls'

\* the step left the three tables of the flows alone
StoreUntouched ==
    /\ users' = users
    /\ user_tokens' = user_tokens
    /\ pairing_sessions' = pairing_sessions

\* C27: within one OAuth flow instance the steps run in the order callback checks,
\* code exchange, identity fetch, get-or-create user, token upsert and (hosted)
\* pairing completion; no step starts before the one before it has succeeded, and
\* a failure at any step stops the flow.
C27_StepsInOrder ==
    [][/\ ret'.op \notin FlowOps => calls' = calls
       /\ ret'.op \in FlowOps =>
            /\ \A c \in CallIds :
                 /\ Entered(c) => /\ calls'[c].pc = "exchange"
                                  /\ ret'.phase = "callback"
                                  /\ ret'.outcome = "awaiting"
                                  /\ ExchangeSent
                                  /\ StoreUntouched
                 /\ Advanced(c) => /\ calls[c].pc = "exchange"
                                   /\ calls'[c].pc = "userinfo"
                                   /\ calls'[c].tokenData # None
                                   /\ ret'.phase = "exchange"
                                   /\ sent' = sent
                                   /\ StoreUntouched
                 /\ (Ended(c) /\ calls[c].pc = "exchange")
                    => ret'.outcome = "threw" /\ StoreUntouched
            /\ ~StoreUntouched
               => /\ ret'.phase = "userinfo"
                  /\ \E c \in CallIds : Ended(c) /\ calls[c].pc = "userinfo"
            /\ user_tokens' # user_tokens
               => /\ ret'.outcome = "returned"
                  /\ ret'.user_id \in DOMAIN users'
                  /\ \A u \in DOMAIN user_tokens' \ {ret'.user_id} :
                        u \in DOMAIN user_tokens /\ user_tokens'[u] = user_tokens[u]
            /\ pairing_sessions' # pairing_sessions
               => /\ ret'.op = "handleHostedCallback"
                  /\ ret'.outcome = "returned"
                  /\ ret'.user_id \in DOMAIN user_tokens'
            /\ ret'.outcome = "threw"
               => /\ sent' = sent
                  /\ user_tokens' = user_tokens
                  /\ pairing_sessions' = pairing_sessions
                  /\ \A c \in CallIds : ~Entered(c) /\ ~Advanced(c)
                  /\ ret'.phase # "callback" => \E c \in CallIds : Ended(c)]_vars

\* a hosted flow ran through all its steps and completed its pairing session
C27_Witness ==
    /\ ret.op = "handleHostedCallback"
    /\ ret.phase = "userinfo"
    /\ ret.outcome = "returned"
    /\ ret.user_id \in DOMAIN user_tokens
    /\ pairing_sessions[ret.pairing_code].completed
    /\ flows # <<>>

----------------------------------------------------------------------------
(* Token Manager: the record a successful refresh stores *)

\* a refresh of the last operation's user has just succeeded
RefreshSucceeded ==
    /\ ret'.op = "getValidAccessToken"
    /\ ret'.phase = "response"
    /\ ret'.status = "ok"

\* C28: on a successful refresh the stored record becomes the new access token, the
\* new refresh token if the response carries one and the previous refresh token
\* otherwise, expiry = time of refresh + expires_in, the scope string of the
\* response and the previous scope string otherwise; getValidAccessToken returns the
\* access token of the record just stored.
C28_RefreshedRecord ==
    [][RefreshSucceeded
       => LET previous == TokenRowOf(user_tokens, ret'.user_id)
              stored == TokenRowOf(user_tokens', ret'.user_id)
              body == ret'.body
          IN  /\ stored # None
              /\ decrypt(stored[1].access_token) = Some(body.access_token)
              /\ IF Truthy(body.refresh_token)
                 THEN decrypt(stored[1].refresh_token) = body.refresh_token
                 ELSE /\ previous # None
                      /\ decrypt(stored[1].refresh_token)
                            = decrypt(previous[1].refresh_token)
              /\ stored[1].expires_at = now + body.expires_in
              /\ IF body.scope # None
                 THEN stored[1].granted_scopes = body.scope[1]
                 ELSE /\ previous # None
                      /\ stored[1].granted_scopes = previous[1].granted_scopes
              /\ Some(ret'.access_token) = decrypt(stored[1].access_token)]_vars

----------------------------------------------------------------------------
(* Cleanup is advisory: the claim *)

\* C29: at every point of every run with cleanups at arbitrary points, each read
\* (getSession, validateSession, getPairingSession, getPairingSessionByState,
\* checkPairingStatus) returns what it returns on the tables of the run of the same
\* operations without any cleanup, and so does every read that follows a
\* completePairingSession issued at that point
C29_CleanupIsAdvisory ==
    /\ \A s \in SessionIds :
          /\ getSession(s) = getSessionIn(uncleaned.sessions, s)
          /\ \A k \in OptSecrets, rnd \in Salts :
                validateSession(s, k, rnd) = validateSessionIn(uncleaned.sessions, s, k, rnd)
    /\ \A c \in PairingCodes :
          /\ getPairingSession(c) = getPairingSessionIn(uncleaned.pairing_sessions, c)
          /\ checkPairingStatus(c) = checkPairingStatusIn(uncleaned.pairing_sessions, c)
          /\ \A u \in DOMAIN users, d \in PairingCodes :
                LET with == completePairingSession(pairing_sessions, c, u)
                    without == completePairingSession(uncleaned.pairing_sessions, c, u)
                IN  /\ getPairingSessionIn(with, d) = getPairingSessionIn(without, d)
                    /\ checkPairingStatusIn(with, d) = checkPairingStatusIn(without, d)
    /\ \A st \in CallbackStates :
          getPairingSessionByState(st)
             = getPairingSessionByStateIn(uncleaned.pairing_sessions, st)

\* both cleanups have removed rows that the run without cleanup still stores, one of
\* them a completed pairing session, and every read answers as if the row were absent
C29_Witness ==
    /\ \E s \in DOMAIN uncleaned.sessions \ DOMAIN sessions : getSession(s) = None
    /\ \E c \in DOMAIN uncleaned.pairing_sessions \ DOMAIN pairing_sessions :
          /\ uncleaned.pairing_sessions[c].completed
          /\ ~checkPairingStatus(c).verified
    /\ ret.op \in {"cleanupExpiredSessions", "cleanupExpiredPairingSessions"}

----------------------------------------------------------------------------
(* Shutdown: the claim *)

\* C30: right after stop(), no server that an earlier startLoopbackAuth of this
\* OAuthManager created is still listening, whatever starts (also ones whose
\* listen failed) and callbacks came before
C30_NoListenerAfterStop ==
    ret.op = "stop" => \A f \in DOMAIN flows : ~flows[f].listening

----------------------------------------------------------------------------
(* A second loopback start while one is pending: the claim *)

\* the servers of loopback starts that listen
Listeners(fl) == {f \in DOMAIN fl : fl[f].listening}

\* C31: a startLoopbackAuth call made while an earlier flow is pending (its server
\* listens) leaves at most one listener bound, and either it reports failure and
\* the pending flow keeps its server, state and verifier, so that a callback with
\* that state passes its checks, or it succeeds and the earlier flow's server no
\* longer listens
C31_SecondStartFailsFastOrReplaces ==
    [][(ret'.op = "startLoopbackAuth" /\ Listeners(flows) # {})
       => /\ Cardinality(Listeners(flows')) <= 1
          /\ \A f \in Listeners(flows) :
                \/ /\ ret'.outcome = "threw"
                   /\ f \in Listeners(flows')
                   /\ flows'[f] = flows[f]
                   /\ flows'[f].codeVerifier = VerifierOf("loopback", f)
                   /\ \A a \in AuthCodes :
                         LoopbackCallbackError([code |-> Some(a),
                                                state |-> Some(StateOf("loopback", f)),
                                                error |-> None],
                                               flows'[f].expectedState) = None
                \/ /\ ret'.outcome = "returned"
                   /\ f \notin Listeners(flows')]_vars

\* a second start has just failed while the first flow is pending
C31_Witness ==
    /\ ret.op = "startLoopbackAuth"
    /\ ret.flow = 2
    /\ ret.outcome = "threw"
    /\ Listeners(flows) = {1}

----------------------------------------------------------------------------
(* The health check: the claim *)

\* the verdict in the four cases of a row that is stored: expired (within the
\* buffer of expires_at), scopes missing for the tool, both, or neither
VerdictOfRow(row, toolName) ==
    LET expired == now >= row.expires_at - RefreshBuffer
        missing == IF Truthy(toolName)
                   THEN checkScopes(row.granted_scopes, getToolScopes(toolName[1]))
                   ELSE <<>>
    IN  [valid |-> ~expired /\ missing = <<>>,
         reason |-> IF expired /\ missing # <<>>
                    THEN Some("Token expired and missing scopes")
                    ELSE IF expired THEN Some("Token expired")
                    ELSE IF missing # <<>> THEN Some("Missing required scopes")
                    ELSE None,
         missingScopes |-> IF missing # <<>> THEN Some(missing) ELSE None]

\* the verdict of the last validateUserTokens call is the one of the five cases
VerdictAsListed ==
    LET tokens == getUserTokens(ret.user_id)
    IN  IF tokens = None
        THEN ~ret.result.valid /\ ret.result.reason = Some("No tokens found")
        ELSE /\ ret.result.valid = VerdictOfRow(tokens[1], ret.toolName).valid
             /\ ret.result.reason = VerdictOfRow(tokens[1], ret.toolName).reason
             /\ ret.result.missingScopes = VerdictOfRow(tokens[1], ret.toolName).missingScopes

----------------------------------------------------------------------------
(* XHttpClient.makeRequest: the claim *)

\* the makeRequest calls in flight
Requests == {c \in DOMAIN calls : calls[c].kind = "request"}

\* a fetch of makeRequest has just settled
Settled == ret.op = "makeRequest" /\ ret.outcome \in {"sleeping", "threw", "returned"}

----------------------------------------------------------------------------
(* Refreshes that overlap other writes: the claim *)

\* the TokenData a getValidAccessToken call would read from the user's row now
StoredTokenData(userId) ==
    LET check == TokenCheck(userId, None)
    IN  IF check.do = "throw" THEN None ELSE Some(check.tokens)

\* C34: when the token endpoint refuses the refresh of a call, a row of the user
\* that was written after the call read it (by an overlapping refresh or by a
\* re-authentication) stays stored
C34_RefusedRefreshKeepsNewerRow ==
    [][\A c \in DOMAIN calls \ DOMAIN calls' :
          (/\ calls[c].kind = "token"
           /\ ret'.op = "getValidAccessToken"
           /\ ret'.phase = "response"
           /\ ret'.status = "refused"
           /\ getUserTokens(calls[c].user.id) # None
           /\ StoredTokenData(calls[c].user.id) # Some(calls[c].currentTokens))
          => user_tokens' = user_tokens]_vars

----------------------------------------------------------------------------
(* getValidAccessToken: what it changes *)

\* C35: a step of getValidAccessToken for a user leaves every other user's token
\* row alone; it deletes the user's row when the token endpoint answers the refresh
\* with a response that is not ok, it stores a row for the user when the refresh
\* succeeds, and in every other outcome (no row, decryption failure, missing
\* scopes, refresh that fails at the network level, token returned without a
\* refresh, refresh sent) user_tokens is unchanged; a call that fails for missing
\* scopes sends no request
C35_TokenRowFrame ==
    [][ret'.op = "getValidAccessToken"
       => LET userId == ret'.user_id
          IN  /\ \A u \in (DOMAIN user_tokens \cup DOMAIN user_tokens') \ {userId} :
                    /\ u \in DOMAIN user_tokens /\ u \in DOMAIN user_tokens'
                    /\ user_tokens'[u] = user_tokens[u]
              /\ IF ret'.phase = "response" /\ ret'.status = "refused"
                 THEN userId \notin DOMAIN user_tokens'
                 ELSE IF ret'.phase = "response" /\ ret'.status = "ok"
                 THEN /\ userId \in DOMAIN user_tokens'
                      /\ decrypt(user_tokens'[userId].access_token)
                            = Some(ret'.access_token)
                 ELSE user_tokens' = user_tokens
              /\ (ret'.outcome = "threw" /\ ret'.code = "auth_scope_insufficient")
                    => sent' = sent /\ calls' = calls]_vars

\* a call has just failed for missing scopes on a row that is inside the refresh
\* window, and no request has been sent
C35_Witness ==
    /\ ret.op = "getValidAccessToken"
    /\ ret.outcome = "threw"
    /\ ret.code = "auth_scope_insufficient"
    /\ NeedsRefresh(user_tokens[ret.user_id].expires_at)
    /\ sent.last = None


\* C36: whenever getValidAccessToken(user, requiredScopes) returns a token, the token
\* row stored for the user at that moment grants every required scope, also when the
\* refresh inside the call stored another scope string than the one checked.  Stated
\* for the returns the record of the last operation identifies with their call: the
\* return without a refresh, and the return of the refresh of the only call in flight
\* that the step before has started
C36_ReturnedTokenGrantsRequired ==
    [][LET required == IF ret'.phase = "call" THEN ret'.requiredScopes
                       ELSE ret.requiredScopes
           tokens == IF ret'.user_id \in DOMAIN user_tokens'
                     THEN Some(user_tokens'[ret'.user_id]) ELSE None
       IN  (/\ ret'.op = "getValidAccessToken"
            /\ ret'.outcome = "returned"
            /\ ret'.phase = "response"
               => /\ ret.op = "getValidAccessToken"
                  /\ ret.outcome = "awaiting"
                  /\ ret.user_id = ret'.user_id
                  /\ Cardinality(DOMAIN calls) = 1
            /\ required # None)
           => /\ tokens # None
              /\ checkScopes(tokens[1].granted_scopes, required[1]) = <<>>]_vars


\* C37: a user whose stored grant is exactly the scopes of the authorization URL
\* passes the scope check of validateToolAccess for every tool of the scope table
C37_RequestedScopesPassEveryTool ==
    (/\ ret.op = "getValidAccessToken"
     /\ ret.phase = "call"
     /\ ret.requiredScopes \in {Some(getToolScopes(t)) : t \in ToolNames}
     /\ getUserTokens(ret.user_id) # None
     /\ getUserTokens(ret.user_id)[1].granted_scopes = getScopesString)
    => ~(ret.outcome = "threw" /\ ret.code = "auth_scope_insufficient")


\* C38: handleHostedCallback returns {user_id, pairing_code} only if the pairing
\* session is at that moment marked completed and bound to that user
C38_HostedSuccessMeansCompleted ==
    (/\ ret.op = "handleHostedCallback"
     /\ ret.outcome = "returned")
    => /\ ret.pairing_code \in DOMAIN pairing_sessions
       /\ pairing_sessions[ret.pairing_code].completed
       /\ pairing_sessions[ret.pairing_code].user_id = Some(ret.user_id)


\* C39: checkPairingStatus(code) returns verified=true only at times strictly before
\* the pairing session's expires_at, and for a session completed in time and bound to
\* a user it returns verified=true at every such time and verified=false from
\* expires_at on
C39_VerifiedOnlyBeforeExpiry ==
    (ret.op = "checkPairingStatus")
    => /\ ret.result.verified
          => /\ ret.pairing_code \in DOMAIN pairing_sessions
             /\ now < pairing_sessions[ret.pairing_code].expires_at
       /\ CompletedAndBound(ret.pairing_code)
          => (ret.result.verified <=> now < pairing_sessions[ret.pairing_code].expires_at)

\* a hosted callback completed the pairing session in time, and the first poll after
\* the TTL returned verified=false
C39_Witness ==
    /\ ret.op = "checkPairingStatus"
    /\ CompletedAndBound(ret.pairing_code)
    /\ getUserTokens(pairing_sessions[ret.pairing_code].user_id[1]) # None
    /\ now >= pairing_sessions[ret.pairing_code].expires_at
    /\ ~ret.result.verified


\* the callbacks of loopback flow f that have sent their code exchange and have not
\* finished
CallbacksInFlight(f) ==
    {c \in DOMAIN calls : calls[c].kind = "loopback" /\ calls[c].flow = f}

\* C40: for one loopback flow instance at most one code exchange is sent and at most
\* one token record is written, also when the callback route is requested again with
\* the same valid state before the first callback has finished: no second callback of
\* the flow gets as far as its exchange while the first is in flight
C40_OneExchangePerFlow ==
    \A f \in DOMAIN flows : Cardinality(CallbacksInFlight(f)) <= 1

====
